---- MODULE Spec2Model ----
(***************************************************************************)
(* State-machine model of the learning core of ELIXI AI (python-core):     *)
(*   memory/memory_manager.py        MemoryManager                         *)
(*   memory/preference_manager.py    PreferenceManager                     *)
(*   automation/suggestion_engine.py SuggestionEngine                      *)
(*   automation/habit_learning.py    HabitLearningEngine                   *)
(*                                                                         *)
(* Each MongoDB collection is a sequence of documents in insertion order.  *)
(* The wall clock is the variable now, in minutes since the first state.   *)
(* Python None is the empty tuple, a present value x is <<x>>.             *)
(* Confidence and similarity scores are integers in hundredths.            *)
(***************************************************************************)
EXTENDS Integers, Sequences, FiniteSets, TLC

VARIABLES
    now,          \* datetime.utcnow(), minutes
    memories,     \* collection "memories"
    suggestions,  \* collection "suggestions"
    preferences,  \* collection "user_preferences"
    history,      \* collection "preference_history"
    events,       \* collection "events"
    patterns,     \* collection "user_patterns"
    ret,          \* the last call: its name, arguments and returned dict
    db,           \* self.db of the managers: None, or the database handle
    policies,     \* DataRetentionManager.policies
    stores,       \* the collections "conversations", "archived_conversations",
                  \* "archived_memories", "event_aggregates" and
                  \* "conversation_context"; the number of documents
                  \* inserted into "conversations"; the archive sweep and
                  \* the restore in progress
    bg            \* the BackgroundModeManager and its monitor thread

vars == <<now, memories, suggestions, preferences, history, events, patterns, ret,
          db, policies, stores, bg>>

None == <<>>
Some(x) == <<x>>

MinutesPerDay == 1440
Days(n) == n * MinutesPerDay

\* ------------------------------------------------------------------------
\* Bounds of the model
\* ------------------------------------------------------------------------
MaxRetained == 2     \* documents in "memories" under SpecRetention
MaxStored == 2       \* documents in "memories" under SpecStore
MaxAccess == 1       \* get_memory calls counted per document
MaxRanked == 2       \* documents in "memories" under SpecRank
MaxSearched == 2     \* documents in "memories" under SpecSearch
MaxMatched == 2      \* documents in "memories" under SpecFallback
MaxDegenerate == 2   \* documents in "memories", and in "events", under SpecDegenerate
MaxExpiring == 2     \* documents in "memories" under SpecExpiry
MaxObserved == 3     \* documents in "events" under SpecBehavior
MaxLearned == 2      \* entries of "preference_history" before an analysis starts
MaxPending == 4      \* documents in "suggestions" under SpecContext
MaxSuggestions == 2  \* documents in "suggestions"
MaxEvents == 3       \* documents in "events"
MaxPrefWrites == 2   \* entries of "preference_history"
MaxMessages == 5     \* messages added to a conversation
MaxSwept == 2        \* documents in "memories" and in "events" under the sweeps
MaxArchived == 3     \* documents inserted into "conversations"
MaxStarts == 2       \* monitor threads started by start_background_mode

\* ------------------------------------------------------------------------
\* pymongo operations on a collection held as a sequence
\* ------------------------------------------------------------------------
\* update_one / find_one act on the first matching document (0: no match)
FirstOf(hits) == IF hits = {} THEN 0 ELSE CHOOSE i \in hits : \A j \in hits : i <= j

\* get_collection returns None when self.db is None, and the operation
\* returns this result
NotConfigured(op) ==
    [op |-> op, success |-> FALSE, error |-> "Database not configured"]

\* ------------------------------------------------------------------------
\* MemoryManager (memory/memory_manager.py)
\* ------------------------------------------------------------------------
MemoryTypes == {"conversation", "preference", "event", "fact", "learning"}
ImportanceLevels == {"low", "medium", "high"}

\* the document save_memory builds; memory_id is fresh for every insert
NewMemory(id, memory_type, content, conversation_id, tags, importance) ==
    [memory_id       |-> id,
     type            |-> memory_type,
     content         |-> content,
     timestamp       |-> now,
     conversation_id |-> conversation_id,
     tags            |-> tags,
     importance      |-> importance,
     relevance_score |-> 100,
     expiry_date     |-> None,
     archived        |-> FALSE,
     archived_at     |-> None,
     access_count    |-> 0,
     last_accessed   |-> None]

save_memory(memory_type, content, conversation_id, tags, importance) ==
    IF db = None
    THEN /\ ret' = NotConfigured("save_memory")
         /\ UNCHANGED <<now, memories, suggestions, preferences, history, events,
                        patterns, db, policies, stores, bg>>
    ELSE
        /\ LET id == Len(memories) + 1
           IN  /\ memories' = Append(memories,
                      NewMemory(id, memory_type, content, conversation_id, tags, importance))
               /\ ret' = [op |-> "save_memory", success |-> TRUE, memory_id |-> id]
        /\ UNCHANGED <<now, suggestions, preferences, history, events, patterns, db, policies, stores, bg>>

\* {"$set": {"archived": True, "archived_at": now}} on the documents at hits
SetArchived(coll, hits) ==
    [i \in DOMAIN coll |->
        IF i \in hits THEN [coll[i] EXCEPT !.archived = TRUE, !.archived_at = Some(now)]
        ELSE coll[i]]

\* (mutation) the document is removed from the collection
delete_memory_remove(memory_id) ==
    LET k == FirstOf({i \in DOMAIN memories : memories[i].memory_id = memory_id})
    IN  /\ memories' = SelectSeq(memories, LAMBDA m : m.memory_id # memory_id)
        /\ ret' = IF k = 0
                  THEN [op |-> "delete_memory", success |-> FALSE,
                        error |-> "Memory not found"]
                  ELSE [op |-> "delete_memory", success |-> TRUE,
                        message |-> "Memory archived"]
        /\ UNCHANGED <<now, suggestions, preferences, history, events, patterns, db, policies, stores, bg>>

delete_memory(memory_id) ==
    LET k == FirstOf({i \in DOMAIN memories : memories[i].memory_id = memory_id})
        matched_count == IF k = 0 THEN 0 ELSE 1
    IN  /\ memories' = SetArchived(memories, {k})
        /\ ret' = IF matched_count = 0
                  THEN [op |-> "delete_memory", success |-> FALSE, error |-> "Memory not found"]
                  ELSE [op |-> "delete_memory", success |-> TRUE, message |-> "Memory archived"]
        /\ UNCHANGED <<now, suggestions, preferences, history, events, patterns, db, policies, stores, bg>>

\* update_one $inc access_count / $set last_accessed, then find_one: neither
\* filter looks at archived
get_memory(memory_id) ==
    LET k == FirstOf({i \in DOMAIN memories : memories[i].memory_id = memory_id})
    IN  /\ k # 0 => memories[k].access_count < MaxAccess
        /\ memories' = [i \in DOMAIN memories |->
                           IF i = k
                           THEN [memories[i] EXCEPT !.access_count = @ + 1,
                                                    !.last_accessed = Some(now)]
                           ELSE memories[i]]
        /\ ret' = IF k = 0
                  THEN [op |-> "get_memory", success |-> FALSE,
                        error |-> "Memory not found"]
                  ELSE [op |-> "get_memory", success |-> TRUE,
                        memory |-> memories'[k]]
        /\ UNCHANGED <<now, suggestions, preferences, history, events, patterns, db, policies, stores, bg>>

\* str.lower() of one character of the model's alphabet; a string is the
\* tuple of its characters
LowerChar(ch) == IF ch = "A" THEN "a" ELSE IF ch = "B" THEN "b" ELSE ch
Lower(str) == [i \in DOMAIN str |-> LowerChar(str[i])]

\* the terms TfidfVectorizer takes from a text: lower-cased runs of two or
\* more word characters (none of the model's words is an English stop word)
Terms(str) ==
    LET low == Lower(str)
        sep == {" ", ".", "+"}
        IsRun(i, j) == /\ \A k \in i..j : low[k] \notin sep
                       /\ (i = 1 \/ low[i - 1] \in sep)
                       /\ (j = Len(low) \/ low[j + 1] \in sep)
    IN  {SubSeq(low, i, j) : <<i, j>> \in
            {r \in (DOMAIN low) \X (DOMAIN low) : r[1] < r[2] /\ IsRun(r[1], r[2])}}

\* the scores cosine_similarity may give for a query against the contents
\* (hundredths): the TF-IDF weights are sklearn's; a score is positive exactly
\* when the content shares a term with the query, equal contents score alike,
\* a content with exactly the query's terms scores 1
CosineOutcomes(query, contents) ==
    {f \in [contents -> {0, 20, 50, 90, 100}] :
        \A c \in contents :
            /\ f[c] = 0 <=> Terms(query) \cap Terms(c) = {}
            /\ f[c] = 100 <=> (Terms(query) = Terms(c) /\ Terms(c) # {})}

\* {"high": 2, "medium": 1, "low": 0}.get(importance, 0)
ImportanceRank(importance) ==
    IF importance = "high" THEN 2 ELSE IF importance = "medium" THEN 1 ELSE 0

\* tuple comparison of two sort keys <<k1, k2, k3>>
KeyLess(a, b) ==
    \/ a[1] < b[1]
    \/ a[1] = b[1] /\ a[2] < b[2]
    \/ a[1] = b[1] /\ a[2] = b[2] /\ a[3] < b[3]

\* items sorted by keys[i] descending (list.sort(reverse=True), cursor.sort
\* with -1); items with equal keys keep their order
SortDescending(items, keys) ==
    LET pos(i) == Cardinality({j \in DOMAIN items :
                      \/ KeyLess(keys[i], keys[j])
                      \/ keys[i] = keys[j] /\ j < i}) + 1
    IN  [r \in DOMAIN items |-> items[CHOOSE i \in DOMAIN items : pos(i) = r]]

\* cursor.limit(n), list[:n]
Limit(items, n) == SubSeq(items, 1, IF Len(items) < n THEN Len(items) ELSE n)

\* (mutation) the query filter of semantic_search without "archived": False
SemanticFilterAll(m, memory_type) == memory_type # None => m.type = memory_type[1]

\* query_filter of semantic_search
SemanticFilter(m, memory_type) ==
    /\ m.archived = FALSE
    /\ memory_type # None => m.type = memory_type[1]

\* (mutation) semantic_search letting the failure of vectorizer.fit reach the
\* outer handler
semantic_search_fit_raises(query, memory_type, limit, threshold, similarity) ==
    LET all_memories == SelectSeq(memories, LAMBDA m : SemanticFilter(m, memory_type))
        vocabulary   == UNION ({Terms(query)} \cup
                               {Terms(all_memories[i].content) : i \in DOMAIN all_memories})
        empty        == \/ all_memories = <<>>
                        \/ \A i \in DOMAIN all_memories : all_memories[i].content = <<>>
    IN  IF ~empty /\ vocabulary = {}
        THEN [op |-> "semantic_search", success |-> FALSE, error |-> "empty vocabulary"]
        ELSE [op |-> "semantic_search", success |-> TRUE,
              memories |-> IF empty THEN <<>>
                           ELSE Limit(SelectSeq(
                                    [i \in DOMAIN all_memories |->
                                        all_memories[i] @@
                                        [similarity_score |->
                                            similarity[all_memories[i].content]]],
                                    LAMBDA m : m.similarity_score >= threshold), limit)]

\* semantic_search; similarity is the score of each content, an outcome of
\* cosine_similarity. The sort key is (-similarity, importance rank, timestamp)
\* and the sort is reversed.
semantic_search(query, memory_type, limit, threshold, similarity) ==
    LET all_memories == SelectSeq(memories, LAMBDA m : SemanticFilter(m, memory_type))
        vocabulary   == UNION ({Terms(query)} \cup
                               {Terms(all_memories[i].content) : i \in DOMAIN all_memories})
        scored       == [i \in DOMAIN all_memories |->
                            all_memories[i] @@
                            [similarity_score |-> similarity[all_memories[i].content]]]
        results      == SelectSeq(scored, LAMBDA m : m.similarity_score >= threshold)
        sorted       == SortDescending(results,
                            [i \in DOMAIN results |->
                                <<0 - results[i].similarity_score,
                                  ImportanceRank(results[i].importance),
                                  results[i].timestamp>>])
        empty        == \/ all_memories = <<>>
                        \/ \A i \in DOMAIN all_memories : all_memories[i].content = <<>>
                        \/ vocabulary = {}
    IN  [op |-> "semantic_search", success |-> TRUE,
         memories |-> IF empty THEN <<>> ELSE Limit(sorted, limit)]

\* `needle in text` for strings
Contains(text, needle) ==
    \E i \in 1..(Len(text) - Len(needle) + 1) :
        SubSeq(text, i, i + Len(needle) - 1) = needle

\* the order of the importance strings under cursor.sort("importance")
ImportanceSortKey(importance) ==
    IF importance = "medium" THEN 2 ELSE IF importance = "low" THEN 1 ELSE 0

\* {"$regex": query, "$options": "i"}: the pattern is searched anywhere in the
\* text, ignoring case. Of the regex syntax the model has the literal
\* characters and ".", which stands for any one character.
RegexSearch(text, pattern) ==
    \E i \in 1..(Len(text) - Len(pattern) + 1) :
        \A j \in DOMAIN pattern :
            \/ pattern[j] = "."
            \/ LowerChar(text[i + j - 1]) = LowerChar(pattern[j])

\* search_query of search_memories: content matches the pattern ignoring
\* case, or the lower-cased query is one of the tags
SearchFilter(m, query, memory_type) ==
    /\ m.archived = FALSE
    /\ \/ RegexSearch(m.content, query)
       \/ \E t \in DOMAIN m.tags : m.tags[t] = Lower(query)
    /\ memory_type # None => m.type = memory_type[1]

search_memories(query, memory_type, limit, use_semantic, similarity) ==
    LET found == SelectSeq(memories, LAMBDA m : SearchFilter(m, query, memory_type))
        regex_results ==
            Limit(SortDescending(found,
                      [i \in DOMAIN found |->
                          <<ImportanceSortKey(found[i].importance),
                            found[i].timestamp, 0>>]),
                  limit)
        match_score(m) ==
            IF Contains(Lower(m.content), Lower(query)) THEN 95
            ELSE IF \E t \in DOMAIN m.tags : m.tags[t] = Lower(query) THEN 85
            ELSE 100
    IN  IF use_semantic /\ Len(regex_results) = 0
        THEN semantic_search(query, memory_type, limit, 30, similarity)
        ELSE [op |-> "search_memories", success |-> TRUE,
              memories |-> [i \in DOMAIN regex_results |->
                               regex_results[i] @@
                               [match_score |-> match_score(regex_results[i])]]]

get_recent_memories(limit, min_importance) ==
    LET found == SelectSeq(memories,
                     LAMBDA m : /\ m.archived = FALSE
                                /\ m.importance \in ImportanceLevels
                                /\ ImportanceRank(m.importance)
                                       >= ImportanceRank(min_importance))
    IN  [op |-> "get_recent_memories", success |-> TRUE,
         memories |-> Limit(SortDescending(found,
                          [i \in DOMAIN found |-> <<found[i].timestamp, 0, 0>>]), limit)]

get_memories_by_type(memory_type, limit) ==
    LET found == SelectSeq(memories,
                     LAMBDA m : m.type = memory_type /\ m.archived = FALSE)
    IN  [op |-> "get_memories_by_type", success |-> TRUE,
         memories |-> Limit(SortDescending(found,
                          [i \in DOMAIN found |-> <<found[i].timestamp, 0, 0>>]), limit)]

\* search_related_memories: with a query the related memories are ordered by
\* similarity (descending), without one by recency
search_related_memories(conversation_id, query, limit, similarity) ==
    LET related == SelectSeq(memories,
                       LAMBDA m : /\ m.conversation_id = Some(conversation_id)
                                  /\ m.archived = FALSE)
        scored  == [i \in DOMAIN related |->
                       related[i] @@
                       [similarity_score |-> similarity[related[i].content]]]
        vocabulary == UNION ({Terms(query)} \cup
                             {Terms(related[i].content) : i \in DOMAIN related})
        by_time(items) ==
            SortDescending(items, [i \in DOMAIN items |-> <<items[i].timestamp, 0, 0>>])
        ordered ==
            IF query # <<>> /\ Len(related) > 0
            THEN IF \A i \in DOMAIN related : related[i].content = <<>> THEN related
                 ELSE IF vocabulary = {} THEN by_time(related)
                 ELSE SortDescending(scored,
                          [i \in DOMAIN scored |-> <<scored[i].similarity_score, 0, 0>>])
            ELSE by_time(related)
    IN  [op |-> "search_related_memories", success |-> TRUE,
         memories |-> Limit(ordered, limit)]

\* the number of documents of type t / importance imp among those counted
CountOf(counted, field, value) ==
    Cardinality({i \in DOMAIN counted : counted[i][field] = value})

get_memory_statistics ==
    LET active == SelectSeq(memories, LAMBDA m : m.archived = FALSE)
    IN  [op |-> "get_memory_statistics", success |-> TRUE,
         total_memories    |-> Len(memories),
         active_memories   |-> Len(active),
         archived_memories |-> Len(memories) - Len(active),
         by_type           |-> [t \in {u \in MemoryTypes : CountOf(active, "type", u) > 0}
                                   |-> CountOf(active, "type", t)],
         by_importance     |-> [p \in {q \in ImportanceLevels :
                                           CountOf(active, "importance", q) > 0}
                                   |-> CountOf(active, "importance", p)]]

\* (mutation) every type kept for the base window only
RetentionPoliciesFlat ==
    << <<"conversation", 1>>, <<"preference", 1>>, <<"fact", 1>>,
       <<"learning", 1>>, <<"event", 1>> >>

\* retention_policies, in the dict's iteration order: <<type, multiplier>>
RetentionPolicies ==
    << <<"conversation", 1>>, <<"preference", 3>>, <<"fact", 10>>,
       <<"learning", 5>>, <<"event", 2>> >>

\* (mutation) the filter without the importance condition
CleanupMatchAnyImportance(m, memory_type, retention_days) ==
    /\ m.type = memory_type
    /\ m.timestamp < now - Days(retention_days)
    /\ m.archived = FALSE

\* the filter of the update_many of one retention policy
CleanupMatch(m, memory_type, retention_days) ==
    /\ m.type = memory_type
    /\ m.timestamp < now - Days(retention_days)
    /\ m.archived = FALSE
    /\ m.importance = "low"

\* the loop over retention_policies from policy k on: <<collection, archived_count>>
RECURSIVE CleanupLoop(_, _, _, _)
CleanupLoop(coll, archived_count, days_to_keep, k) ==
    IF k > Len(RetentionPolicies) THEN <<coll, archived_count>>
    ELSE LET memory_type    == RetentionPolicies[k][1]
             retention_days == days_to_keep * RetentionPolicies[k][2]
             hits == {i \in DOMAIN coll :
                         CleanupMatch(coll[i], memory_type, retention_days)}
         IN  CleanupLoop(SetArchived(coll, hits), archived_count + Cardinality(hits),
                         days_to_keep, k + 1)

cleanup_old_memories(days_to_keep) ==
    LET done == CleanupLoop(memories, 0, days_to_keep, 1)
    IN  /\ memories' = done[1]
        /\ ret' = [op |-> "cleanup_old_memories", days_to_keep |-> days_to_keep,
                   success |-> TRUE, archived_count |-> done[2]]
        /\ UNCHANGED <<now, suggestions, preferences, history, events, patterns, db, policies, stores, bg>>

\* update_one({"memory_id": id}, {"$set": {"expiry_date": now + days}})
set_memory_expiry(memory_id, days_to_expiry) ==
    LET k == FirstOf({i \in DOMAIN memories : memories[i].memory_id = memory_id})
        expiry_date == now + Days(days_to_expiry)
    IN  /\ memories' = [i \in DOMAIN memories |->
                           IF i = k
                           THEN [memories[i] EXCEPT !.expiry_date = Some(expiry_date)]
                           ELSE memories[i]]
        /\ ret' = IF k = 0
                  THEN [op |-> "set_memory_expiry", success |-> FALSE,
                        error |-> "Memory not found"]
                  ELSE [op |-> "set_memory_expiry", success |-> TRUE,
                        expiry_date |-> expiry_date]
        /\ UNCHANGED <<now, suggestions, preferences, history, events, patterns, db, policies, stores, bg>>

\* (mutation) the sweep limited to low importance, as cleanup_old_memories is
ExpiredMatchLowOnly(m) ==
    /\ m.expiry_date # None /\ m.expiry_date[1] < now
    /\ m.archived = FALSE
    /\ m.importance = "low"

\* {"expiry_date": {"$ne": None, "$lt": now}, "archived": False}
ExpiredMatch(m) ==
    /\ m.expiry_date # None /\ m.expiry_date[1] < now
    /\ m.archived = FALSE

archive_expired_memories ==
    LET hits == {i \in DOMAIN memories : ExpiredMatch(memories[i])}
    IN  /\ memories' = SetArchived(memories, hits)
        /\ ret' = [op |-> "archive_expired_memories", success |-> TRUE,
                   archived_count |-> Cardinality(hits)]
        /\ UNCHANGED <<now, suggestions, preferences, history, events, patterns, db, policies, stores, bg>>

\* ------------------------------------------------------------------------
\* DataRetentionManager (data_retention.py)
\* ------------------------------------------------------------------------
\* retention_days is None for "kept indefinitely"
DEFAULT_POLICIES ==
    LET policy(days, action) == [retention_days |-> days, action |-> action]
    IN  [t \in {"short_term", "conversations", "important", "events", "habits",
                "preferences", "commands", "workflows"} |->
            CASE t = "short_term"    -> policy(Some(30), "delete")
              [] t = "conversations" -> policy(Some(90), "archive")
              [] t = "important"     -> policy(Some(365), "archive")
              [] t = "events"        -> policy(Some(60), "aggregate")
              [] t = "habits"        -> policy(Some(180), "keep")
              [] OTHER               -> policy(None, "keep")]

\* no part of set_retention_policy looks at self.db
set_retention_policy(memory_type, retention_days, action) ==
    /\ policies' = [policies EXCEPT
                       ![memory_type] = [retention_days |-> retention_days,
                                         action |-> action]]
    /\ ret' = [op |-> "set_retention_policy", status |-> "success",
               memory_type |-> memory_type, policy |-> policies'[memory_type]]
    /\ UNCHANGED <<now, memories, suggestions, preferences, history, events, patterns, db,
                   stores, bg>>

\* {"timestamp": {"$lt": cutoff_date}} with cutoff_date a datetime: MongoDB
\* compares a date only with a date, so the filter selects the documents whose
\* timestamp is stored as a date (timestamp_type "date") and is earlier.  The
\* managers store their timestamps as ISO strings; their documents carry no
\* timestamp_type and are never selected.
ExpiredDated(doc, cutoff) ==
    /\ "timestamp_type" \in DOMAIN doc
    /\ doc.timestamp_type = "date"
    /\ doc.timestamp < cutoff

\* the types for which the policy's action reaches a collection
Touches(memory_type, policy) ==
    /\ policy.action # "keep"
    /\ policy.retention_days # None
    /\ \/ policy.action = "delete"    /\ memory_type \in {"short_term", "events"}
       \/ policy.action = "archive"   /\ memory_type \in {"conversations", "important"}
       \/ policy.action = "aggregate" /\ memory_type = "events"

\* query of _delete_expired, _archive_expired and _aggregate_expired
ExpiredQuery(doc, memory_type, policy) ==
    /\ ExpiredDated(doc, now - Days(policy.retention_days[1]))
    /\ memory_type \in {"short_term", "important"} =>
           "memory_type" \in DOMAIN doc /\ doc.memory_type = memory_type

\* _delete_expired, _archive_expired, _aggregate_expired for one type: the
\* collection is reached as an attribute of self.db, which raises on None and
\* is reported as an error of this type
ExpiredResult(memory_type, policy) ==
    LET source == IF memory_type \in {"short_term", "important"} THEN memories
                  ELSE IF memory_type = "events" THEN events
                  ELSE stores.conversations
    IN  IF policy.action = "keep" THEN [status |-> "skipped"]
        ELSE IF policy.retention_days = None THEN [status |-> "skipped"]
        ELSE IF ~Touches(memory_type, policy) THEN [status |-> "skipped"]
        ELSE IF db = None THEN [status |-> "error"]
        ELSE [status |-> "success",
              records |-> Len(SelectSeq(source,
                              LAMBDA d : ExpiredQuery(d, memory_type, policy)))]

\* the $group by event_type of _aggregate_expired, upserted into
\* "event_aggregates" with $inc of total_events; aggs maps event types to
\* summaries
Aggregated(aggs, expired) ==
    LET types == {expired[i].event_type : i \in DOMAIN expired}
        count(t) == Cardinality({i \in DOMAIN expired : expired[i].event_type = t})
    IN  [t \in (DOMAIN aggs) \cup types |->
            IF t \in types
            THEN [count |-> count(t),
                  total_events |-> count(t) + IF t \in DOMAIN aggs
                                              THEN aggs[t].total_events ELSE 0]
            ELSE aggs[t]]

\* cleanup_expired_data: one result per cleaned type that has a policy with a
\* known action; "delete" and "aggregate" remove the selected documents with
\* delete_many, "archive" inserts them into the archive collection and removes
\* them from their source
cleanup_expired_data(memory_type) ==
    LET types_to_clean == IF memory_type # None THEN {memory_type[1]} ELSE DOMAIN policies
        cleaned == {t \in types_to_clean \cap DOMAIN policies :
                       policies[t].action \in {"delete", "archive", "aggregate", "keep"}}
        swept(t) == db # None /\ t \in cleaned /\ Touches(t, policies[t])
        gone(doc, t) == swept(t) /\ ExpiredQuery(doc, t, policies[t])
    IN  /\ ret' = [op |-> "cleanup_expired_data",
                   cleanup_results |-> [t \in cleaned |-> ExpiredResult(t, policies[t])]]
        /\ memories' = SelectSeq(memories,
                           LAMBDA m : ~gone(m, "short_term") /\ ~gone(m, "important"))
        /\ events' = SelectSeq(events, LAMBDA e : ~gone(e, "events"))
        /\ stores' = [stores EXCEPT
               !.conversations = SelectSeq(@, LAMBDA c : ~gone(c, "conversations")),
               !.archived_conversations =
                   @ \o SelectSeq(stores.conversations, LAMBDA c : gone(c, "conversations")),
               !.archived_memories =
                   @ \o SelectSeq(memories, LAMBDA m : gone(m, "important")),
               !.event_aggregates =
                   IF swept("events") /\ policies["events"].action = "aggregate"
                   THEN Aggregated(@, SelectSeq(events, LAMBDA e : gone(e, "events")))
                   ELSE @]
        /\ UNCHANGED <<now, suggestions, preferences, history, patterns, db, policies, bg>>

\* ------------------------------------------------------------------------
\* BackgroundModeManager (background_mode.py)
\* ------------------------------------------------------------------------
\* __init__: not running, no monitor thread; BACKGROUND_AUTO_RESTART is not a
\* key of the loaded configuration, so auto-restart takes its default True.
\* threads holds one entry, "alive" or "done", per monitor thread ever started;
\* _monitor_thread is the last one.  caller is the position of the thread that
\* calls the manager: "idle", or "joining" inside stop_background_mode.
BackgroundInit ==
    [_is_running |-> FALSE, _crash_count |-> 0, auto_restart_on_crash |-> TRUE,
     _stop_event |-> FALSE, threads |-> <<>>, caller |-> "idle"]

\* ------------------------------------------------------------------------
\* The clock
\* ------------------------------------------------------------------------
\* time passes between two calls: the clock moves to a later instant
Tick(instants) ==
    /\ \E t \in instants : t > now /\ now' = t
    /\ ret' = [op |-> "tick"]
    /\ UNCHANGED <<memories, suggestions, preferences, history, events, patterns, db, policies, stores, bg>>

\* ------------------------------------------------------------------------
\* Retention: save, delete and cleanup over every type and importance
\* ------------------------------------------------------------------------
Init ==
    /\ now = 0
    /\ memories = <<>>
    /\ suggestions = <<>>
    /\ preferences = <<>>
    /\ history = <<>>
    /\ events = <<>>
    /\ patterns = <<>>
    /\ ret = [op |-> "init"]
    /\ db = Some("elixi")
    /\ policies = DEFAULT_POLICIES
    /\ stores = [conversations |-> <<>>, archived_conversations |-> <<>>,
                 archived_memories |-> <<>>, event_aggregates |-> <<>>,
                 conversation_context |-> <<>>, inserted |-> 0,
                 sweep |-> None, restore |-> None]
    /\ bg = BackgroundInit

RetentionInstants == {Days(201), Days(901)}
DaysToKeepInputs == {0, 90}

SaveAny ==
    /\ Len(memories) < MaxRetained
    /\ \E t \in MemoryTypes, imp \in ImportanceLevels :
           save_memory(t, <<"a", "b">>, None, <<>>, imp)
CleanupAny == \E d \in DaysToKeepInputs : cleanup_old_memories(d)
RetentionTick == Tick(RetentionInstants)

NextRetention == SaveAny \/ CleanupAny \/ RetentionTick

SpecRetention == Init /\ [][NextRetention]_vars

\* age of a memory in minutes
Age(m) == now - m.timestamp

\* C1: cleanup_old_memories never archives a memory whose importance is high
\* or medium: every record a cleanup call newly archives has importance low.
C1_CleanupArchivesOnlyLow ==
    [][CleanupAny =>
         \A i \in DOMAIN memories :
             (memories'[i].archived /\ ~memories[i].archived)
                 => memories[i].importance = "low"]_vars

\* the multiplier m(T) as the claim states it
ClaimedMultiplier(t) ==
    CASE t = "conversation" -> 1
      [] t = "preference"   -> 3
      [] t = "fact"         -> 10
      [] t = "learning"     -> 5
      [] t = "event"        -> 2

\* C1 witness: a cleanup call archived something and left alone a high
\* importance memory that is older than its type's retention window.
C1_Witness ==
    /\ ret.op = "cleanup_old_memories"
    /\ ret.archived_count > 0
    /\ \E i \in DOMAIN memories :
           /\ memories[i].importance = "high"
           /\ ~memories[i].archived
           /\ Age(memories[i]) >
                  Days(ret.days_to_keep * ClaimedMultiplier(memories[i].type))

\* C9: cleanup_old_memories(d) archives a non-archived low-importance record
\* of type T exactly when its age exceeds d * m(T); with d = 90 a low fact of
\* age 700 days stays and one of age 901 days is archived.
C9_RetentionMultiplier ==
    [][\A d \in DaysToKeepInputs : cleanup_old_memories(d) =>
         \A i \in DOMAIN memories :
             (~memories[i].archived /\ memories[i].importance = "low")
                 => /\ memories'[i].archived
                        <=> Age(memories[i]) > Days(d * ClaimedMultiplier(memories[i].type))
                    /\ (d = 90 /\ memories[i].type = "fact" /\ Age(memories[i]) = Days(700))
                        => ~memories'[i].archived
                    /\ (d = 90 /\ memories[i].type = "fact" /\ Age(memories[i]) = Days(901))
                        => memories'[i].archived]_vars

\* C9 witness: cleanup(90) has just archived a low fact aged 901 days and
\* kept a low fact aged 700 days.
C9_Witness ==
    /\ ret.op = "cleanup_old_memories"
    /\ ret.days_to_keep = 90
    /\ \E i, j \in DOMAIN memories :
           /\ memories[i].type = "fact" /\ memories[i].importance = "low"
           /\ Age(memories[i]) = Days(901)
           /\ memories[i].archived /\ memories[i].archived_at = Some(now)
           /\ memories[j].type = "fact" /\ memories[j].importance = "low"
           /\ Age(memories[j]) = Days(700)
           /\ ~memories[j].archived

\* ------------------------------------------------------------------------
\* Store: save, delete (archive) and get by id
\* ------------------------------------------------------------------------
StoreSave ==
    /\ Len(memories) < MaxStored
    /\ \E c \in {<<"a", "b">>, <<"c", "d">>}, imp \in {"low", "high"} :
           save_memory("fact", c, None, <<"t">>, imp)
StoreDelete == \E id \in 1..(MaxStored + 1) : delete_memory(id)
StoreGet == \E id \in 1..(MaxStored + 1) : get_memory(id)

NextStore == StoreSave \/ StoreDelete \/ StoreGet

SpecStore == Init /\ [][NextStore]_vars

\* the fields delete_memory must leave alone
Kept(m) == <<m.memory_id, m.type, m.content, m.tags, m.importance, m.timestamp>>

\* C8: delete_memory(id) removes no record: it sets archived (and the archival
\* timestamp) on the record and leaves content, type, tags and importance
\* alone; get_memory(id) still returns the record afterwards; an unknown id
\* gives a not-found failure and changes nothing.
C8_DeleteArchives ==
    [][\A id \in 1..(MaxStored + 1) :
           LET known == \E i \in DOMAIN memories : memories[i].memory_id = id
           IN  /\ delete_memory(id) =>
                      /\ Len(memories') = Len(memories)
                      /\ \A i \in DOMAIN memories :
                             /\ Kept(memories'[i]) = Kept(memories[i])
                             /\ memories[i].memory_id # id => memories'[i] = memories[i]
                             /\ memories[i].memory_id = id =>
                                    /\ memories'[i].archived
                                    /\ memories'[i].archived_at # None
                      /\ known => ret'.success
                      /\ ~known => /\ ~ret'.success
                                   /\ ret'.error = "Memory not found"
                                   /\ memories' = memories
               /\ (get_memory(id) /\ known) =>
                      /\ ret'.success
                      /\ \E i \in DOMAIN memories :
                             /\ memories[i].memory_id = id
                             /\ Kept(ret'.memory) = Kept(memories[i])
                             /\ ret'.memory.archived = memories[i].archived]_vars

\* C8 witness: get_memory has just returned a record that delete_memory had
\* archived.
C8_Witness ==
    /\ ret.op = "get_memory"
    /\ ret.success
    /\ ret.memory.archived
    /\ ret.memory.archived_at # None
    /\ \E i \in DOMAIN memories : memories[i].memory_id = ret.memory.memory_id

\* ------------------------------------------------------------------------
\* Ranking: semantic_search over saved memories
\* ------------------------------------------------------------------------
RankContents == {<<"a", "b">>, <<"A", "B", " ", "c", "d">>}

RankSave ==
    /\ Len(memories) < MaxRanked
    /\ \E c \in RankContents, imp \in ImportanceLevels :
           save_memory("fact", c, None, <<>>, imp)
RankSearch ==
    \E limit \in {1, 20}, similarity \in CosineOutcomes(<<"a", "b">>, RankContents) :
        /\ ret' = semantic_search(<<"a", "b">>, None, limit, 30, similarity)
        /\ UNCHANGED <<now, memories, suggestions, preferences, history, events,
                        patterns, db, policies, stores, bg>>
RankTick == Tick({1})

NextRank == RankSave \/ RankSearch \/ RankTick

SpecRank == Init /\ [][NextRank]_vars

\* C6: the list semantic_search returns is ordered by similarity descending,
\* then importance rank (high 2, medium 1, low 0) descending, then timestamp
\* descending.
C6_RankOrder ==
    (ret.op = "semantic_search" /\ ret.success) =>
        \A i, j \in DOMAIN ret.memories :
            i < j =>
                LET a == ret.memories[i]
                    b == ret.memories[j]
                    rank(m) == CASE m.importance = "high"   -> 2
                                 [] m.importance = "medium" -> 1
                                 [] m.importance = "low"    -> 0
                IN  /\ a.similarity_score >= b.similarity_score
                    /\ a.similarity_score = b.similarity_score => rank(a) >= rank(b)
                    /\ (a.similarity_score = b.similarity_score /\ rank(a) = rank(b))
                           => a.timestamp >= b.timestamp

NextExpiry ==
    \/ /\ Len(memories) < MaxExpiring
       /\ \E imp \in {"low", "high"} : save_memory("fact", <<"a", "b">>, None, <<>>, imp)
    \/ \E id \in 1..MaxExpiring, days \in {0, 1, 3} : set_memory_expiry(id, days)
    \/ archive_expired_memories
    \/ Tick({Days(2)})

SpecExpiry == Init /\ [][NextExpiry]_vars

\* C17: archive_expired_memories archives every non-archived record whose
\* expiry date is set and lies before the time of the call, whatever its
\* importance, and leaves every other record as it was.
C17_SweepByExpiryOnly ==
    [][archive_expired_memories =>
           \A i \in DOMAIN memories :
               IF /\ ~memories[i].archived
                  /\ memories[i].expiry_date # None
                  /\ memories[i].expiry_date[1] < now
               THEN memories'[i].archived
               ELSE memories'[i] = memories[i]]_vars

\* C17 witness: a sweep has archived a record of high importance whose expiry
\* date had passed and has kept a record whose expiry date is unset or ahead.
C17_Witness ==
    /\ ret.op = "archive_expired_memories"
    /\ ret.archived_count >= 1
    /\ \E i \in DOMAIN memories :
           /\ memories[i].importance = "high"
           /\ memories[i].archived /\ memories[i].archived_at = Some(now)
    /\ \E i \in DOMAIN memories :
           /\ ~memories[i].archived
           /\ memories[i].expiry_date = None \/ memories[i].expiry_date[1] >= now

\* ------------------------------------------------------------------------
\* Search: every read operation over a store with archived records
\* ------------------------------------------------------------------------
SearchContents == {<<"a", "b">>, <<"c", "d">>}
SearchQueries == {<<"a", "b">>, <<"b", "c">>}

SearchSave ==
    /\ Len(memories) < MaxSearched
    /\ \E c \in SearchContents, imp \in {"low", "high"} :
           \/ save_memory("fact", c, None, <<>>, imp)
           \/ save_memory("conversation", c, Some("c1"), <<>>, imp)
SearchDelete == \E id \in 1..MaxSearched : delete_memory(id)
SearchRead ==
    /\ \E q \in SearchQueries, t \in {None, Some("fact")}, limit \in {1, 20} :
        \E similarity \in CosineOutcomes(q, SearchContents) :
           \/ ret' = search_memories(q, t, limit, TRUE, similarity)
           \/ ret' = semantic_search(q, t, limit, 0, similarity)
           \/ ret' = search_related_memories("c1", q, limit, similarity)
           \/ ret' = get_recent_memories(limit, "low")
           \/ ret' = get_memories_by_type("fact", limit)
           \/ ret' = get_memory_statistics
    /\ UNCHANGED <<now, memories, suggestions, preferences, history, events,
                        patterns, db, policies, stores, bg>>

NextSearch == SearchSave \/ SearchDelete \/ SearchRead

SpecSearch == Init /\ [][NextSearch]_vars

SearchOps ==
    {"search_memories", "semantic_search", "get_recent_memories",
     "get_memories_by_type", "search_related_memories"}

\* the ids of the records a figure counts must all be non-archived: the figure
\* equals the number of non-archived records with the counted property
ActiveWith(field, value) ==
    Cardinality({i \in DOMAIN memories :
                    ~memories[i].archived /\ memories[i][field] = value})

SearchResultsActive ==
    ret.op \in SearchOps =>
        \A i \in DOMAIN ret.memories :
            /\ ~ret.memories[i].archived
            /\ \E k \in DOMAIN memories :
                   /\ memories[k].memory_id = ret.memories[i].memory_id
                   /\ ~memories[k].archived

StatisticsActive ==
    ret.op = "get_memory_statistics" =>
        /\ ret.active_memories =
               Cardinality({i \in DOMAIN memories : ~memories[i].archived})
        /\ \A t \in DOMAIN ret.by_type : ret.by_type[t] = ActiveWith("type", t)
        /\ \A p \in DOMAIN ret.by_importance :
               ret.by_importance[p] = ActiveWith("importance", p)

\* C7 as stated: no archived record appears in the result of the five search
\* operations, and no archived record is counted in a figure of
\* get_memory_statistics other than archived_memories.
C7_ArchivedExcluded ==
    /\ SearchResultsActive
    /\ StatisticsActive
    /\ ret.op = "get_memory_statistics" =>
           ret.total_memories =
               Cardinality({i \in DOMAIN memories : ~memories[i].archived})

\* C7 amended: as above, except that total_memories counts every record,
\* archived ones included (archived_memories = total_memories - active_memories).
C7_ArchivedExcludedButTotal ==
    /\ SearchResultsActive
    /\ StatisticsActive
    /\ ret.op = "get_memory_statistics" =>
           /\ ret.total_memories = Len(memories)
           /\ ret.archived_memories =
                  Cardinality({i \in DOMAIN memories : memories[i].archived})

\* C7 witness: a search over a store holding an archived record that matches
\* the query returned a non-archived record only.
C7_Witness ==
    /\ ret.op = "semantic_search"
    /\ Len(ret.memories) = 1
    /\ \E k \in DOMAIN memories :
           /\ memories[k].archived
           /\ memories[k].content = ret.memories[1].content

\* ------------------------------------------------------------------------
\* Fallback: search_memories over contents and queries with a "."
\* ------------------------------------------------------------------------
FallbackContents == {<<"a", ".">>, <<"a", "b">>, <<"a", "b", " ", "c", "d">>}

FallbackSave ==
    /\ Len(memories) < MaxMatched
    /\ \E c \in FallbackContents, tags \in {<<>>, << <<"a", "b">> >>} :
           save_memory("fact", c, None, tags, "low")
FallbackSearch ==
    /\ \E q \in {<<"a", ".">>, <<"A", "B">>, <<"c", "d", " ", "a", "b">>},
          use_semantic \in BOOLEAN, limit \in {1, 20} :
        \E similarity \in CosineOutcomes(q, FallbackContents) :
           ret' = [query |-> q, use_semantic |-> use_semantic, limit |-> limit]
                  @@ search_memories(q, None, limit, use_semantic, similarity)
    /\ UNCHANGED <<now, memories, suggestions, preferences, history, events,
                        patterns, db, policies, stores, bg>>

NextFallback ==
    \/ FallbackSave
    \/ \E id \in 1..MaxMatched : delete_memory(id)
    \/ FallbackSearch

SpecFallback == Init /\ [][NextFallback]_vars

\* the non-archived records that hold the query as a substring, ignoring
\* case, or carry it as a tag
SubstringMatches(query) ==
    {i \in DOMAIN memories :
        /\ ~memories[i].archived
        /\ \/ Contains(Lower(memories[i].content), Lower(query))
           \/ \E t \in DOMAIN memories[i].tags : memories[i].tags[t] = Lower(query)}

\* C11: a search_memories call hands the query to the similarity ranker only
\* when the substring/tag match is empty; when the match is not empty the
\* result is the matches themselves (the first `limit` of them) and nothing else.
C11_FallbackOnlyWhenNoMatch ==
    "query" \in DOMAIN ret =>
        LET matches == SubstringMatches(ret.query)
            lim     == IF Cardinality(matches) < ret.limit
                       THEN Cardinality(matches) ELSE ret.limit
        IN  /\ ret.op = "semantic_search" => matches = {}
            /\ matches # {} =>
                   /\ ret.op = "search_memories"
                   /\ Len(ret.memories) = lim
                   /\ \A i \in DOMAIN ret.memories :
                          \E k \in matches :
                              memories[k].memory_id = ret.memories[i].memory_id

\* ------------------------------------------------------------------------
\* SuggestionEngine (automation/suggestion_engine.py)
\* ------------------------------------------------------------------------
\* max(0, min(1, x)) on hundredths
Clamp01(x) == IF x < 0 THEN 0 ELSE IF x > 100 THEN 100 ELSE x

create_suggestion(suggestion_type, description, confidence_score) ==
    IF db = None
    THEN /\ ret' = NotConfigured("create_suggestion")
         /\ UNCHANGED <<now, memories, suggestions, preferences, history, events,
                        patterns, db, policies, stores, bg>>
    ELSE
        LET id == Len(suggestions) + 1
        IN  /\ suggestions' = Append(suggestions,
                   [suggestion_id    |-> id,
                    type             |-> suggestion_type,
                    description      |-> description,
                    confidence_score |-> Clamp01(confidence_score),
                    status           |-> "pending",
                    created_date     |-> now,
                    response_date    |-> None,
                    user_response    |-> None,
                    helpful          |-> None])
            /\ ret' = [op |-> "create_suggestion", success |-> TRUE, suggestion_id |-> id]
            /\ UNCHANGED <<now, memories, preferences, history, events, patterns, db, policies, stores, bg>>

\* update_one({"suggestion_id": id}, {"$set": update_data}): the filter names no
\* status, and the result is not inspected
respond_to_suggestion(suggestion_id, response, helpful) ==
    LET k == FirstOf({i \in DOMAIN suggestions :
                        suggestions[i].suggestion_id = suggestion_id})
    IN  /\ suggestions' =
               [i \in DOMAIN suggestions |->
                   IF i = k
                   THEN [suggestions[i] EXCEPT
                            !.status = "responded",
                            !.user_response = Some(response),
                            !.response_date = Some(now),
                            !.helpful = IF helpful # None THEN helpful ELSE @]
                   ELSE suggestions[i]]
        /\ ret' = [op |-> "respond_to_suggestion", suggestion_id |-> suggestion_id,
                   response |-> response, success |-> TRUE]
        /\ UNCHANGED <<now, memories, preferences, history, events, patterns, db, policies, stores, bg>>

dismiss_suggestion_type(suggestion_type) ==
    LET hits == {i \in DOMAIN suggestions :
                    /\ suggestions[i].type = suggestion_type
                    /\ suggestions[i].status = "pending"}
    IN  /\ suggestions' =
               [i \in DOMAIN suggestions |->
                   IF i \in hits
                   THEN [suggestions[i] EXCEPT !.status = "dismissed",
                                               !.response_date = Some(now)]
                   ELSE suggestions[i]]
        /\ ret' = [op |-> "dismiss_suggestion_type", suggestion_type |-> suggestion_type,
                   success |-> TRUE, dismissed_count |-> Cardinality(hits)]
        /\ UNCHANGED <<now, memories, preferences, history, events, patterns, db, policies, stores, bg>>

SuggestionTypes == {"automation", "learning"}
Responses == {"accepted", "rejected"}

CreateAny ==
    /\ Len(suggestions) < MaxSuggestions
    /\ \E t \in SuggestionTypes, c \in {50, 150} :
           create_suggestion(t, <<"r", "o", "u", "t", "i", "n", "e">>, c)
RespondAny ==
    \E id \in 1..(MaxSuggestions + 1), r \in Responses,
       h \in {None, Some(TRUE), Some(FALSE)} :
        respond_to_suggestion(id, r, h)
DismissAny == \E t \in SuggestionTypes : dismiss_suggestion_type(t)
SuggestionTick == Tick({60})

NextSuggestions == CreateAny \/ RespondAny \/ DismissAny \/ SuggestionTick

SpecSuggestions == Init /\ [][NextSuggestions]_vars

\* C2: once a suggestion has been responded to, a later respond_to_suggestion
\* leaves its user_response, helpful flag and response date as they were.
C2_RespondOnce ==
    [][RespondAny =>
         \A i \in DOMAIN suggestions :
             suggestions[i].status = "responded"
                 => /\ suggestions'[i].user_response = suggestions[i].user_response
                    /\ suggestions'[i].helpful = suggestions[i].helpful
                    /\ suggestions'[i].response_date = suggestions[i].response_date]_vars

\* C3: a suggestion's status changes only pending -> responded (by respond) or
\* pending -> dismissed (by dismiss_suggestion_type of its type); responded
\* and dismissed are terminal.
C3_StatusMachine ==
    [][\A i \in DOMAIN suggestions :
           suggestions'[i].status # suggestions[i].status
               => /\ suggestions[i].status = "pending"
                  /\ \/ suggestions'[i].status = "responded" /\ RespondAny
                     \/ /\ suggestions'[i].status = "dismissed"
                        /\ dismiss_suggestion_type(suggestions[i].type)]_vars

\* (mutation) the score without the penalty for suggestions older than a day
_calculate_context_score_no_penalty(suggestion, context) ==
    LET routine == <<"r", "o", "u", "t", "i", "n", "e">>
        timed == IF /\ context.time_of_day = "morning"
                    /\ Contains(Lower(suggestion.description), routine)
                 THEN suggestion.confidence_score + 10
                 ELSE suggestion.confidence_score
        score == IF \E a \in DOMAIN context.active_apps :
                        Contains(Lower(suggestion.description),
                                 Lower(context.active_apps[a]))
                 THEN timed + 15 ELSE timed
    IN  IF score > 100 THEN 100 ELSE score

\* _calculate_context_score, in hundredths; _get_hours_since(created) > 24 is
\* now - created_date > 24 * 60
_calculate_context_score(suggestion, context) ==
    LET routine == <<"r", "o", "u", "t", "i", "n", "e">>
        timed == IF /\ context.time_of_day = "morning"
                    /\ Contains(Lower(suggestion.description), routine)
                 THEN suggestion.confidence_score + 10
                 ELSE suggestion.confidence_score
        boosted == IF \E a \in DOMAIN context.active_apps :
                          Contains(Lower(suggestion.description),
                                   Lower(context.active_apps[a]))
                   THEN timed + 15 ELSE timed
        score == IF now - suggestion.created_date > 24 * 60
                 THEN (boosted * 8) \div 10 ELSE boosted
    IN  IF score > 100 THEN 100 ELSE score

\* the pending suggestions with a score above 0, sorted by score (descending,
\* equal scores in collection order), the first three
get_suggestions_for_context(context) ==
    LET pending == SelectSeq(suggestions, LAMBDA g : g.status = "pending")
        scored  == SelectSeq(pending, LAMBDA g : _calculate_context_score(g, context) > 0)
        sorted  == SortDescending(scored,
                       [i \in DOMAIN scored |->
                           <<_calculate_context_score(scored[i], context), 0, 0>>])
    IN  /\ ret' = [op |-> "get_suggestions_for_context", context |-> context,
                   success |-> TRUE, suggestions |-> Limit(sorted, 3)]
        /\ UNCHANGED <<now, memories, suggestions, preferences, history, events,
                       patterns, db, policies, stores, bg>>

\* SpecContext: suggestions of three kinds, one response, a day passing
NextContext ==
    \/ /\ Len(suggestions) < MaxPending
       /\ \/ create_suggestion("automation", <<"x">>, 0)
          \/ create_suggestion("automation", <<"r", "o", "u", "t", "i", "n", "e">>, 85)
          \/ create_suggestion("automation", <<"a", "b">>, 90)
    \/ respond_to_suggestion(1, "accepted", None)
    \/ \E time_of_day \in {"morning", "evening"}, active_apps \in {<<>>, << <<"A", "B">> >>} :
           get_suggestions_for_context(
               [time_of_day |-> time_of_day, active_apps |-> active_apps])
    \/ Tick({Days(2)})

SpecContext == Init /\ [][NextContext]_vars

\* the score the claim gives a suggestion: stored confidence, + 0.10 in the
\* morning for a description mentioning "routine", + 0.15 for a description
\* naming an active app, times 0.8 when older than 24 hours, at most 1.0
ClaimedScore(g, context) ==
    LET base == g.confidence_score
                + (IF /\ context.time_of_day = "morning"
                      /\ Contains(Lower(g.description),
                                  <<"r", "o", "u", "t", "i", "n", "e">>)
                   THEN 10 ELSE 0)
                + (IF \E a \in DOMAIN context.active_apps :
                         Contains(Lower(g.description), Lower(context.active_apps[a]))
                   THEN 15 ELSE 0)
        aged == IF now - g.created_date > 24 * 60 THEN (base * 8) \div 10 ELSE base
    IN  IF aged > 100 THEN 100 ELSE aged

\* the returned suggestions are `count` of the candidates, each pending, and no
\* candidate left out has a higher claimed score than one returned
TopOf(candidates, count) ==
    LET returned == {ret.suggestions[i].suggestion_id : i \in DOMAIN ret.suggestions}
    IN  /\ Len(ret.suggestions) = count
        /\ Cardinality(returned) = count
        /\ returned \subseteq {suggestions[k].suggestion_id : k \in candidates}
        /\ \A k \in candidates, j \in candidates :
               (suggestions[k].suggestion_id \in returned
                /\ suggestions[j].suggestion_id \notin returned)
                   => ClaimedScore(suggestions[j], ret.context)
                          <= ClaimedScore(suggestions[k], ret.context)

\* C20 as stated: get_suggestions_for_context returns the min(3, number of
\* pending suggestions) pending suggestions with the highest score.
C20_TopThreePending ==
    ret.op = "get_suggestions_for_context" =>
        LET pending == {k \in DOMAIN suggestions : suggestions[k].status = "pending"}
        IN  TopOf(pending, IF Cardinality(pending) < 3 THEN Cardinality(pending) ELSE 3)

\* C20 amended: it returns the min(3, number of pending suggestions with a
\* score above 0) highest-scored of the pending suggestions whose score is
\* above 0; a pending suggestion that scores 0 is never returned.
C20_TopThreePositive ==
    ret.op = "get_suggestions_for_context" =>
        LET positive == {k \in DOMAIN suggestions :
                            /\ suggestions[k].status = "pending"
                            /\ ClaimedScore(suggestions[k], ret.context) > 0}
        IN  TopOf(positive, IF Cardinality(positive) < 3 THEN Cardinality(positive) ELSE 3)

\* C20 witness: four pending suggestions score above 0, one of them older than
\* a day, and three were returned.
C20_Witness ==
    /\ ret.op = "get_suggestions_for_context"
    /\ Len(ret.suggestions) = 3
    /\ Cardinality({k \in DOMAIN suggestions :
           /\ suggestions[k].status = "pending"
           /\ ClaimedScore(suggestions[k], ret.context) > 0}) = 4
    /\ \E k \in DOMAIN suggestions : now - suggestions[k].created_date > 24 * 60

\* ------------------------------------------------------------------------
\* PreferenceManager (memory/preference_manager.py)
\* ------------------------------------------------------------------------
\* (mutation) the confidence stored as the caller gave it
StoredConfidenceRaw(confidence) == confidence

\* "confidence": max(0, min(1, confidence))
StoredConfidence(confidence) == Clamp01(confidence)

\* the first document of user_preferences with this (category, key), or 0
PrefIndex(category, key) ==
    FirstOf({i \in DOMAIN preferences :
                preferences[i].category = category /\ preferences[i].key = key})

\* update_one({"category", "key"}, {"$set": preference}, upsert=True), then
\* _log_preference_change; the $set document always carries "version": 1
set_preference(category, key, value, source, confidence) ==
    IF db = None
    THEN /\ ret' = NotConfigured("set_preference")
         /\ UNCHANGED <<now, memories, suggestions, preferences, history, events,
                        patterns, db, policies, stores, bg>>
    ELSE
        LET preference ==
                [preference_id |-> Len(history) + 1,
                 category      |-> category,
                 key           |-> key,
                 value         |-> value,
                 set_date      |-> now,
                 modified_date |-> now,
                 source        |-> source,
                 confidence    |-> StoredConfidence(confidence),
                 version       |-> 1]
            k == PrefIndex(category, key)
        IN  /\ preferences' = IF k = 0 THEN Append(preferences, preference)
                              ELSE [preferences EXCEPT ![k] = preference]
            /\ history' = Append(history,
                   [timestamp |-> now, category |-> category, key |-> key,
                    value |-> value, source |-> source])
            /\ ret' = [op |-> "set_preference", category |-> category, key |-> key,
                       value |-> value, confidence |-> confidence,
                       success |-> TRUE, preference_id |-> preference.preference_id]
            /\ UNCHANGED <<now, memories, suggestions, events, patterns, db, policies, stores, bg>>

\* (mutation) learn_preference without the confidence gate
learn_preference_ungated(category, key, value, confidence) ==
    set_preference(category, key, value, "inferred", confidence)

learn_preference(category, key, value, confidence) ==
    IF confidence < 30
    THEN /\ ret' = [op |-> "learn_preference", category |-> category, key |-> key,
                    value |-> value, confidence |-> confidence,
                    success |-> FALSE, error |-> "Confidence too low"]
         /\ UNCHANGED <<now, memories, suggestions, preferences, history, events,
                        patterns, db, policies, stores, bg>>
    ELSE set_preference(category, key, value, "inferred", confidence)

apply_preference(category, key) ==
    LET k == PrefIndex(category, key)
    IN  /\ preferences' =
               [i \in DOMAIN preferences |->
                   IF i = k
                   THEN [preferences[i] EXCEPT !.source = "manual",
                                               !.modified_date = now,
                                               !.confidence = 100]
                   ELSE preferences[i]]
        /\ ret' = IF k = 0
                  THEN [op |-> "apply_preference", success |-> FALSE,
                        error |-> "Preference not found"]
                  ELSE [op |-> "apply_preference", success |-> TRUE,
                        message |-> "Preference applied"]
        /\ UNCHANGED <<now, memories, suggestions, history, events, patterns, db, policies, stores, bg>>

delete_preference(category, key) ==
    LET k == PrefIndex(category, key)
    IN  /\ preferences' =
               IF k = 0 THEN preferences
               ELSE [j \in 1..(Len(preferences) - 1) |->
                        IF j < k THEN preferences[j] ELSE preferences[j + 1]]
        /\ ret' = IF k = 0
                  THEN [op |-> "delete_preference", success |-> FALSE,
                        error |-> "Preference not found"]
                  ELSE [op |-> "delete_preference", success |-> TRUE,
                        message |-> "Preference deleted"]
        /\ UNCHANGED <<now, memories, suggestions, history, events, patterns, db, policies, stores, bg>>

PrefKeys == {"speed", "theme"}
PrefValues == {"v1", "v2"}
ConfidenceInputs == {0 - 50, 20, 30, 150}

SetAny ==
    /\ Len(history) < MaxPrefWrites
    /\ \E k \in PrefKeys, v \in PrefValues, c \in ConfidenceInputs,
          source \in {"manual", "inferred"} :
           set_preference("voice", k, v, source, c)
LearnAny ==
    /\ Len(history) < MaxPrefWrites
    /\ \E k \in PrefKeys, v \in PrefValues, c \in ConfidenceInputs :
           learn_preference("voice", k, v, c)
ApplyAny == \E k \in PrefKeys : apply_preference("voice", k)
DeleteAny == \E k \in PrefKeys : delete_preference("voice", k)

NextPreferences == SetAny \/ LearnAny \/ ApplyAny \/ DeleteAny

SpecPreferences == Init /\ [][NextPreferences]_vars

\* C4: set_preference called twice with the same (category, key, value) leaves
\* exactly one stored preference for (category, key), holding that value, and
\* the version after the second call is greater than after the first.
C4_IdempotentVersionBump ==
    [][\A k \in PrefKeys, v \in PrefValues, c \in ConfidenceInputs :
           (/\ ret.op = "set_preference"
            /\ ret.category = "voice" /\ ret.key = k /\ ret.value = v
            /\ set_preference("voice", k, v, "manual", c))
               => LET stored == {i \in DOMAIN preferences' :
                                    /\ preferences'[i].category = "voice"
                                    /\ preferences'[i].key = k}
                  IN  /\ Cardinality(stored) = 1
                      /\ \A i \in stored :
                             /\ preferences'[i].value = v
                             /\ preferences'[i].version >
                                    preferences[PrefIndex("voice", k)].version]_vars

\* C5: every stored preference has a confidence within [0, 1], whatever
\* confidence the callers of set_preference, learn_preference and
\* apply_preference supplied.
C5_ConfidenceInRange ==
    \A i \in DOMAIN preferences :
        preferences[i].confidence >= 0 /\ preferences[i].confidence <= 100

\* C5 witness: set_preference was called with a confidence above 1 and the
\* preference it wrote is stored with confidence 1.
C5_Witness ==
    /\ ret.op = "set_preference"
    /\ ret.confidence > 100
    /\ PrefIndex(ret.category, ret.key) # 0
    /\ preferences[PrefIndex(ret.category, ret.key)].confidence = 100

\* C12: learn_preference with confidence < 0.3 reports a failure and leaves
\* the preference store and the preference history as they were; with
\* confidence >= 0.3 it succeeds and the preference for (category, key) is
\* stored once, with the learned value and source "inferred".
C12_LearnGate ==
    [][\A k \in PrefKeys, v \in PrefValues, c \in ConfidenceInputs :
           learn_preference("voice", k, v, c) =>
               IF c < 30
               THEN /\ ret'.success = FALSE
                    /\ preferences' = preferences
                    /\ history' = history
               ELSE /\ ret'.success = TRUE
                    /\ Cardinality({i \in DOMAIN preferences' :
                           /\ preferences'[i].category = "voice"
                           /\ preferences'[i].key = k}) = 1
                    /\ preferences'[PrefIndex("voice", k)'].value = v
                    /\ preferences'[PrefIndex("voice", k)'].source = "inferred"]_vars

\* C12 witness: a candidate with confidence 0.2 was rejected while the store
\* held a preference.
C12_Witness ==
    /\ ret.op = "learn_preference"
    /\ ret.success = FALSE
    /\ ret.confidence = 20
    /\ preferences # <<>>

\* C13: after any sequence of calls of the preference store no stored
\* preference has source "inferred" together with a confidence below 0.3.
C13_NoWeakInferred ==
    \A i \in DOMAIN preferences :
        preferences[i].source = "inferred" => preferences[i].confidence >= 30

\* C14: every successful set_preference, learn_preference and
\* apply_preference call appends exactly one entry to the preference history,
\* and no call changes or removes an entry the history already holds.
C14_HistoryAppendOnly ==
    [][/\ Len(history') >= Len(history)
       /\ SubSeq(history', 1, Len(history)) = history
       /\ ((SetAny \/ LearnAny \/ ApplyAny) /\ ret'.success = TRUE)
              => Len(history') = Len(history) + 1]_vars

\* ------------------------------------------------------------------------
\* HabitLearningEngine (automation/habit_learning.py)
\* ------------------------------------------------------------------------
_get_time_period(hour) ==
    IF 5 <= hour /\ hour < 12 THEN "morning"
    ELSE IF 12 <= hour /\ hour < 17 THEN "afternoon"
    ELSE IF 17 <= hour /\ hour < 21 THEN "evening"
    ELSE "night"

record_event(event_type, app_name) ==
    IF db = None
    THEN /\ ret' = NotConfigured("record_event")
         /\ UNCHANGED <<now, memories, suggestions, preferences, history, events,
                        patterns, db, policies, stores, bg>>
    ELSE
        /\ events' = Append(events,
               [event_id    |-> Len(events) + 1,
                event_type  |-> event_type,
                app_name    |-> app_name,
                timestamp   |-> now,
                time_of_day |-> _get_time_period((now \div 60) % 24)])
        /\ ret' = [op |-> "record_event", success |-> TRUE, event_id |-> Len(events) + 1]
        /\ UNCHANGED <<now, memories, suggestions, preferences, history, patterns, db, policies, stores, bg>>

\* the elements of a sequence, each once, in the order of first occurrence
\* (the key order of a dict or Counter filled from it)
RECURSIVE KeysInOrder(_)
KeysInOrder(seq) ==
    IF seq = <<>> THEN <<>>
    ELSE LET rest == KeysInOrder(SubSeq(seq, 1, Len(seq) - 1))
             x    == seq[Len(seq)]
         IN  IF \E i \in DOMAIN rest : rest[i] = x THEN rest ELSE Append(rest, x)

Count(seq, x) == Cardinality({i \in DOMAIN seq : seq[i] = x})

\* abs((dt2 - dt1).total_seconds() / 60)
_time_diff_minutes(time1, time2) == IF time2 >= time1 THEN time2 - time1 ELSE time1 - time2

\* the "A -> B" keys counted into sequences, one per adjacent pair of
\* app_opened events at most 5 minutes apart; a key is <<A, B>>
SequenceKeys(app_events) ==
    LET pairs == [i \in 1..(Len(app_events) - 1) |->
                     [app1 |-> app_events[i].app_name,
                      app2 |-> app_events[i + 1].app_name,
                      diff |-> _time_diff_minutes(app_events[i].timestamp,
                                                  app_events[i + 1].timestamp)]]
        close == SelectSeq(pairs,
                     LAMBDA q : q.app1 # "" /\ q.app2 # "" /\ q.diff <= 5)
    IN  [i \in DOMAIN close |-> <<close[i].app1, close[i].app2>>]

_detect_sequential_patterns(evts) ==
    LET app_events == SelectSeq(evts, LAMBDA e : e.event_type = "app_opened")
        keys       == SequenceKeys(app_events)
        counted    == [i \in DOMAIN KeysInOrder(keys) |->
                          [pattern_type     |-> "sequential",
                           description      |-> KeysInOrder(keys)[i],
                           occurrences      |-> Count(keys, KeysInOrder(keys)[i]),
                           confidence_score |->
                               LET n == Count(keys, KeysInOrder(keys)[i])
                               IN  IF 70 + n * 5 > 95 THEN 95 ELSE 70 + n * 5]]
    IN  IF Len(app_events) < 2 THEN <<>>
        ELSE SelectSeq(counted, LAMBDA p : p.occurrences >= 2)

\* Counter(seq).most_common(3): the three most frequent keys, ties in the
\* order of first occurrence
MostCommon3(seq) ==
    LET keys == KeysInOrder(seq)
        rank(i) == Cardinality({j \in DOMAIN keys :
                       \/ Count(seq, keys[j]) > Count(seq, keys[i])
                       \/ Count(seq, keys[j]) = Count(seq, keys[i]) /\ j < i}) + 1
        sorted == [r \in DOMAIN keys |-> keys[CHOOSE i \in DOMAIN keys : rank(i) = r]]
    IN  SubSeq(sorted, 1, IF Len(sorted) < 3 THEN Len(sorted) ELSE 3)

\* the patterns of one time period: share = count / total, kept if > 0.4
TimePatternsOf(time_period, event_types) ==
    LET total == Len(event_types)
        top   == MostCommon3(event_types)
        all   == [i \in DOMAIN top |->
                     [pattern_type     |-> "time_based",
                      description      |-> <<time_period, top[i]>>,
                      time_period      |-> time_period,
                      occurrences      |-> Count(event_types, top[i]),
                      confidence_score |-> (Count(event_types, top[i]) * 100) \div total]]
    IN  SelectSeq(all, LAMBDA p : p.occurrences * 10 > total * 4)

RECURSIVE TimePatternsFrom(_, _)
TimePatternsFrom(periods, evts) ==
    IF periods = <<>> THEN <<>>
    ELSE LET of_period == SelectSeq(evts, LAMBDA e : e.time_of_day = Head(periods))
             types     == [i \in DOMAIN of_period |-> of_period[i].event_type]
         IN  TimePatternsOf(Head(periods), types) \o TimePatternsFrom(Tail(periods), evts)

_detect_time_patterns(evts) ==
    LET tagged == SelectSeq(evts, LAMBDA e : e.time_of_day # "" /\ e.event_type # "")
    IN  TimePatternsFrom(KeysInOrder([i \in DOMAIN tagged |-> tagged[i].time_of_day]),
                         tagged)

_detect_frequency_patterns(evts) ==
    LET types == [i \in DOMAIN evts |-> evts[i].event_type]
        keys  == KeysInOrder(types)
        all   == [i \in DOMAIN keys |->
                     [pattern_type     |-> "frequency",
                      description      |-> <<"Frequently", keys[i]>>,
                      occurrences      |-> Count(types, keys[i]),
                      confidence_score |->
                          LET f == (Count(types, keys[i]) * 100) \div Len(evts)
                          IN  IF f > 95 THEN 95 ELSE f]]
    IN  SelectSeq(all, LAMBDA p : p.description[2] # "" /\ p.occurrences >= 3)

\* one filtering loop of _detect_patterns, `if p["confidence"] > threshold`:
\* the subscript raises KeyError on a dict without the key "confidence"
SurfaceLoop(found, threshold) ==
    IF \E i \in DOMAIN found : "confidence" \notin DOMAIN found[i]
    THEN [raised |-> TRUE, patterns |-> <<>>]
    ELSE [raised |-> FALSE,
          patterns |-> SelectSeq(found, LAMBDA p : p["confidence"] > threshold)]

\* the three loops in turn; an exception in one skips the rest
_detect_patterns(evts) ==
    LET seq  == SurfaceLoop(_detect_sequential_patterns(evts), 70)
        time == SurfaceLoop(_detect_time_patterns(evts), 60)
        freq == SurfaceLoop(_detect_frequency_patterns(evts), 60)
    IN  IF seq.raised \/ time.raised \/ freq.raised
        THEN [raised |-> TRUE, patterns |-> <<>>]
        ELSE [raised |-> FALSE,
              patterns |-> seq.patterns \o time.patterns \o freq.patterns]

_generate_habit_suggestions(found) ==
    LET usable == SelectSeq(found,
                      LAMBDA p : /\ p.confidence_score >= 60
                                 /\ p.pattern_type \in {"sequential", "time_based"})
    IN  [i \in DOMAIN usable |->
            [habit_id         |-> now,
             type             |-> IF usable[i].pattern_type = "sequential"
                                  THEN "automation" ELSE "scheduling",
             confidence_score |-> usable[i].confidence_score,
             pattern          |-> usable[i],
             status           |-> "pending"]]

analyze_recent_events(days) ==
    LET window   == SelectSeq(events, LAMBDA e : /\ "timestamp_type" \notin DOMAIN e
                                                 /\ e.timestamp >= now - Days(days))
        detected == _detect_patterns(window)
    IN  /\ ret' =
               IF window = <<>>
               THEN [op |-> "analyze_recent_events", days |-> days, success |-> TRUE,
                     patterns |-> <<>>, habits |-> <<>>]
               ELSE IF detected.raised
               THEN [op |-> "analyze_recent_events", days |-> days, success |-> FALSE,
                     error |-> "'confidence'"]
               ELSE [op |-> "analyze_recent_events", days |-> days, success |-> TRUE,
                     patterns |-> detected.patterns,
                     habits |-> _generate_habit_suggestions(detected.patterns)]
        /\ patterns' =
               IF window = <<>> \/ detected.raised THEN patterns
               ELSE patterns \o [i \in DOMAIN detected.patterns |->
                                    [pattern |-> detected.patterns[i], detected_at |-> now]]
        /\ UNCHANGED <<now, memories, suggestions, preferences, history, events, db, policies, stores, bg>>

Apps == {"Chrome", "Code"}

RecordAny ==
    /\ Len(events) < MaxEvents
    /\ \/ \E a \in Apps : record_event("app_opened", a)
       \/ record_event("command_executed", "")
AnalyzeAny == \E d \in {0, 7} : analyze_recent_events(d)
HabitTick == Tick({1, 7})

NextHabits == RecordAny \/ AnalyzeAny \/ HabitTick

SpecHabits == Init /\ [][NextHabits]_vars

\* the number n of times A directly precedes B, at most 5 minutes apart, among
\* the app_opened events of the analysed window
PairOccurrences(days, a, b) ==
    LET opened == SelectSeq(events,
                      LAMBDA e : /\ e.timestamp >= now - Days(days)
                                 /\ e.event_type = "app_opened")
    IN  Cardinality({i \in 1..(Len(opened) - 1) :
            /\ opened[i].app_name = a /\ opened[i + 1].app_name = b
            /\ opened[i + 1].timestamp - opened[i].timestamp <= 5})

\* C10: analyze_recent_events succeeds, and its patterns hold a sequential
\* pattern A -> B with occurrences n and confidence min(0.95, 0.7 + 0.05 n) for
\* every pair of consecutive app_opened events seen n >= 2 times, and none for
\* a pair seen once.
C10_SequentialPatterns ==
    ret.op = "analyze_recent_events" =>
        /\ ret.success
        /\ \A a, b \in Apps :
               LET n == PairOccurrences(ret.days, a, b)
                   found == {i \in DOMAIN ret.patterns :
                                /\ ret.patterns[i].pattern_type = "sequential"
                                /\ ret.patterns[i].description = <<a, b>>}
               IN  /\ n >= 2 =>
                          \E i \in found :
                              /\ ret.patterns[i].occurrences = n
                              /\ ret.patterns[i].confidence_score =
                                     (IF 70 + 5 * n > 95 THEN 95 ELSE 70 + 5 * n)
                   /\ n = 1 => found = {}

\* the event types recorded in one time period within the analysed window
TypesInPeriod(days, time_period) ==
    LET of_period == SelectSeq(events,
                         LAMBDA e : /\ e.timestamp >= now - Days(days)
                                    /\ e.time_of_day = time_period)
    IN  [i \in DOMAIN of_period |-> of_period[i].event_type]

\* C19: the output of analyze_recent_events holds a time-based pattern for
\* (time period, event type) exactly when the type is among the three most
\* frequent types of the period and its share of the period's events is above
\* 0.4 and above 0.6.
C19_TimePatternThresholds ==
    ret.op = "analyze_recent_events" =>
        \A time_period \in {"morning", "afternoon", "evening", "night"},
           event_type \in {"app_opened", "command_executed"} :
            LET types == TypesInPeriod(ret.days, time_period)
                top   == MostCommon3(types)
                n     == Count(types, event_type)
            IN  (/\ \E i \in DOMAIN top : top[i] = event_type
                 /\ n * 10 > Len(types) * 4
                 /\ n * 10 > Len(types) * 6)
                <=> (/\ "patterns" \in DOMAIN ret
                     /\ \E i \in DOMAIN ret.patterns :
                            /\ ret.patterns[i].pattern_type = "time_based"
                            /\ ret.patterns[i].description = <<time_period, event_type>>)

\* ------------------------------------------------------------------------
\* Sweeps: the batch operations over memories and events
\* ------------------------------------------------------------------------
\* A document put into "events" by another writer of the database, with its
\* timestamp stored as a date, the form the filters of DataRetentionManager
\* compare with.
ImportEvent ==
    /\ db # None
    /\ events' = Append(events,
           [event_id       |-> Len(events) + 1,
            event_type     |-> "app_opened",
            app_name       |-> "Chrome",
            timestamp      |-> now,
            timestamp_type |-> "date",
            time_of_day    |-> _get_time_period((now \div 60) % 24)])
    /\ ret' = [op |-> "insert_one"]
    /\ UNCHANGED <<now, memories, suggestions, preferences, history, patterns, db,
                   policies, stores, bg>>

\* the batch operations
BatchOperation ==
    \/ \E t \in {None, Some("events")} : cleanup_expired_data(t)
    \/ cleanup_old_memories(30)
    \/ archive_expired_memories
    \/ analyze_recent_events(7)

NextSweep ==
    \/ /\ Len(events) < MaxSwept
       /\ \A t \in DOMAIN stores.event_aggregates :
              stores.event_aggregates[t].total_events < MaxSwept
       /\ \/ record_event("app_opened", "Chrome")
          \/ ImportEvent
    \/ /\ Len(memories) < MaxSwept
       /\ save_memory("fact", <<"a">>, None, <<>>, "low")
    \/ \E id \in 1..MaxSwept : set_memory_expiry(id, 1)
    \/ BatchOperation
    \/ Tick({Days(61)})

SpecSweep == Init /\ [][NextSweep]_vars

\* C21: a batch operation deletes no memory and no event, and changes no field
\* of a memory or event other than archived and archived_at.
C21_BatchFrame ==
    [][BatchOperation =>
           /\ events' = events
           /\ Len(memories') = Len(memories)
           /\ \A i \in DOMAIN memories :
                  [memories'[i] EXCEPT !.archived = FALSE, !.archived_at = None]
                      = [memories[i] EXCEPT !.archived = FALSE, !.archived_at = None]]_vars

\* ------------------------------------------------------------------------
\* Feedback on detected habits
\* ------------------------------------------------------------------------
\* provide_habit_feedback: update_one({"habit_id": pattern_id}, {"$set": ...})
\* on "user_patterns", whose result is not looked at
provide_habit_feedback(pattern_id, feedback) ==
    LET k == FirstOf({i \in DOMAIN patterns :
                         /\ "habit_id" \in DOMAIN patterns[i]
                         /\ patterns[i].habit_id = pattern_id})
    IN  IF db = None
        THEN /\ ret' = NotConfigured("provide_habit_feedback")
             /\ UNCHANGED <<now, memories, suggestions, preferences, history, events,
                            patterns, db, policies, stores, bg>>
        ELSE /\ patterns' =
                    IF k = 0 THEN patterns
                    ELSE [patterns EXCEPT ![k] =
                             [f \in (DOMAIN @) \cup {"user_feedback", "feedback_date"} |->
                                 IF f = "user_feedback" THEN feedback
                                 ELSE IF f = "feedback_date" THEN now
                                 ELSE @[f]]]
             /\ ret' = [op |-> "provide_habit_feedback", pattern_id |-> pattern_id,
                        success |-> TRUE]
             /\ UNCHANGED <<now, memories, suggestions, preferences, history, events,
                            db, policies, stores, bg>>

NextFeedback ==
    \/ NextHabits
    \/ \E pattern_id \in {0, 1}, feedback \in {"helpful", "not_helpful"} :
           provide_habit_feedback(pattern_id, feedback)

SpecFeedback == Init /\ [][NextFeedback]_vars

\* C28: provide_habit_feedback called with an identifier that matches no
\* stored pattern does not report success; called with the identifier the
\* analysis reported for a stored pattern, it leaves that pattern carrying the
\* feedback.
C28_FeedbackFindsPattern ==
    ret.op = "provide_habit_feedback" =>
        IF \E i \in DOMAIN patterns :
               "habit_id" \in DOMAIN patterns[i] /\ patterns[i].habit_id = ret.pattern_id
        THEN ret.success
        ELSE ~ret.success

\* ------------------------------------------------------------------------
\* PreferenceManager.analyze_behavior_for_preferences
\* ------------------------------------------------------------------------
\* _analyze_app_preferences: the three most opened apps, each a candidate if it
\* has more than 30% of the app events; confidence min(0.95, 0.5 + ratio)
_analyze_app_preferences(window) ==
    LET app_events == SelectSeq(window,
                          LAMBDA e : /\ e.event_type \in {"app_opened", "app_launched"}
                                     /\ e.app_name # "")
        names == [i \in DOMAIN app_events |-> app_events[i].app_name]
        total == Len(names)
        top   == MostCommon3(names)
        all   == [i \in DOMAIN top |->
                     LET count == Count(names, top[i])
                         usage_ratio == (count * 100) \div total
                     IN  [category |-> "behavior", key |-> "preferred_app",
                          value |-> top[i], count |-> count,
                          confidence |-> IF 50 + usage_ratio > 95 THEN 95
                                         ELSE 50 + usage_ratio]]
    IN  SelectSeq(all, LAMBDA c : c.count * 10 > total * 3)

\* _analyze_time_preferences: the most active time of day, a candidate if it
\* has more than 35% of the events; confidence min(0.9, 0.4 + ratio)
_analyze_time_preferences(window) ==
    LET times == [i \in DOMAIN window |-> window[i].time_of_day]
        total == Len(times)
        top   == MostCommon3(times)
        count == Count(times, top[1])
        activity_ratio == (count * 100) \div total
    IN  IF window = <<>> \/ ~(count * 100 > total * 35) THEN <<>>
        ELSE << [category |-> "behavior", key |-> "peak_activity_time",
                 value |-> top[1], count |-> count,
                 confidence |-> IF 40 + activity_ratio > 90 THEN 90
                                ELSE 40 + activity_ratio] >>

\* _analyze_interaction_preferences: the documents of "memories" in the window
\* whose field "memory_type" is "conversation"; with fewer than 5 no candidate,
\* otherwise the style by the average content length
_analyze_interaction_preferences(days) ==
    LET conversations == SelectSeq(memories,
                             LAMBDA m : /\ m.timestamp >= now - Days(days)
                                        /\ "memory_type" \in DOMAIN m
                                        /\ m.memory_type = "conversation")
        response_lengths == SelectSeq([i \in DOMAIN conversations |->
                                          Len(conversations[i].content)],
                                      LAMBDA n : n > 0)
        sum[i \in 0..Len(response_lengths)] ==
            IF i = 0 THEN 0 ELSE sum[i - 1] + response_lengths[i]
        total == sum[Len(response_lengths)]
        n     == Len(response_lengths)
    IN  IF Len(conversations) < 5 \/ response_lengths = <<>> THEN <<>>
        ELSE << [category |-> "interaction", key |-> "response_style",
                 value |-> IF total < 100 * n THEN "brief"
                           ELSE IF total < 300 * n THEN "moderate"
                           ELSE "detailed",
                 count |-> n,
                 confidence |-> IF total < 100 * n THEN 75
                                ELSE IF total < 300 * n THEN 70
                                ELSE 75] >>

\* (mutation) the candidates are stored as the user's own settings
LearnedSourceManual == "manual"

\* learn_preference passes source="inferred" to set_preference
LearnedSource == "inferred"

\* `if pattern.get("confidence", 0) >= 0.6` and the gate of learn_preference
CommittedIf(pattern) == pattern.confidence >= 60 /\ ~(pattern.confidence < 30)

\* the loop over the candidates: learn_preference on each committed one, in
\* order, every call an upsert into the store and one history entry;
\* st = [preferences, history, stored_count]
RECURSIVE LearnEach(_, _)
LearnEach(candidates, st) ==
    IF candidates = <<>> THEN st
    ELSE LET c == Head(candidates)
             preference ==
                 [preference_id |-> Len(st.history) + 1,
                  category      |-> c.category,
                  key           |-> c.key,
                  value         |-> c.value,
                  set_date      |-> now,
                  modified_date |-> now,
                  source        |-> LearnedSource,
                  confidence    |-> StoredConfidence(c.confidence),
                  version       |-> 1]
             k == FirstOf({i \in DOMAIN st.preferences :
                             /\ st.preferences[i].category = c.category
                             /\ st.preferences[i].key = c.key})
         IN  IF ~CommittedIf(c) THEN LearnEach(Tail(candidates), st)
             ELSE LearnEach(Tail(candidates),
                      [preferences  |-> IF k = 0 THEN Append(st.preferences, preference)
                                        ELSE [st.preferences EXCEPT ![k] = preference],
                       history      |-> Append(st.history,
                                            [timestamp |-> now, category |-> c.category,
                                             key |-> c.key, value |-> c.value,
                                             source |-> LearnedSource]),
                       stored_count |-> st.stored_count + 1])

\* the events hold no field "command_type", so the command analysis finds no
\* candidate
analyze_behavior_for_preferences(days) ==
    IF db = None
    THEN /\ ret' = NotConfigured("analyze_behavior_for_preferences")
         /\ UNCHANGED <<now, memories, suggestions, preferences, history, events,
                        patterns, db, policies, stores, bg>>
    ELSE LET window == SelectSeq(events, LAMBDA e : /\ "timestamp_type" \notin DOMAIN e
                                                    /\ e.timestamp >= now - Days(days))
             found  == _analyze_app_preferences(window) \o _analyze_time_preferences(window)
                           \o _analyze_interaction_preferences(days)
             st     == LearnEach(found, [preferences |-> preferences, history |-> history,
                                         stored_count |-> 0])
         IN  /\ preferences' = st.preferences
             /\ history' = st.history
             /\ ret' = [op |-> "analyze_behavior_for_preferences", success |-> TRUE,
                        patterns_detected |-> Len(found),
                        preferences_learned |-> st.stored_count,
                        patterns |-> found]
             /\ UNCHANGED <<now, memories, suggestions, events, patterns, db, policies, stores, bg>>

NextBehavior ==
    \/ /\ Len(events) < MaxObserved
       /\ \E a \in Apps : record_event("app_opened", a)
    \/ /\ Len(history) < MaxLearned
       /\ \/ analyze_behavior_for_preferences(14)
          \/ set_preference("behavior", "preferred_app", "Code", "manual", 100)
    \/ Tick({13 * 60, Days(15)})

SpecBehavior == Init /\ [][NextBehavior]_vars

\* C18: a preference written by analyze_behavior_for_preferences comes from a
\* candidate of confidence >= 0.6 and has source "inferred"; when every
\* candidate is below 0.6 the store and the history stay as they were.
C18_CommitGate ==
    [][analyze_behavior_for_preferences(14) =>
           LET candidates == ret'.patterns
               strong(category, key, value) ==
                   \E i \in DOMAIN candidates :
                       /\ candidates[i].confidence >= 60
                       /\ candidates[i].category = category
                       /\ candidates[i].key = key
                       /\ candidates[i].value = value
           IN  /\ \A i \in DOMAIN preferences' :
                      (i \notin DOMAIN preferences \/ preferences'[i] # preferences[i])
                          => /\ preferences'[i].source = "inferred"
                             /\ strong(preferences'[i].category, preferences'[i].key,
                                       preferences'[i].value)
               /\ Len(preferences') >= Len(preferences)
               /\ SubSeq(history', 1, Len(history)) = history
               /\ \A j \in (Len(history) + 1)..Len(history') :
                      /\ history'[j].source = "inferred"
                      /\ strong(history'[j].category, history'[j].key, history'[j].value)
               /\ (\A i \in DOMAIN candidates : candidates[i].confidence < 60)
                      => preferences' = preferences /\ history' = history]_vars

\* C18 witness: an analysis found a candidate and replaced the manual
\* preference for the preferred app by an inferred one.
C18_Witness ==
    /\ ret.op = "analyze_behavior_for_preferences"
    /\ ret.preferences_learned >= 2
    /\ Len(history) >= 3
    /\ history[1].source = "manual"
    /\ \E i \in DOMAIN preferences :
           /\ preferences[i].key = "preferred_app"
           /\ preferences[i].source = "inferred"
           /\ preferences[i].confidence >= 60

\* C27: after an analysis over a window in which at least one app has more
\* than 30% of the app-open events, the stored behavior/preferred_app is the
\* app with the largest share, also when several apps exceed 30%.
C27_PreferredAppIsLargest ==
    [][analyze_behavior_for_preferences(14) =>
           LET apps == SelectSeq(ret'.patterns, LAMBDA c : c.key = "preferred_app")
           IN  apps # <<>> =>
                   \E i \in DOMAIN preferences' :
                       /\ preferences'[i].category = "behavior"
                       /\ preferences'[i].key = "preferred_app"
                       /\ \E j \in DOMAIN apps :
                              /\ apps[j].value = preferences'[i].value
                              /\ \A k \in DOMAIN apps : apps[k].count <= apps[j].count]_vars

\* ------------------------------------------------------------------------
\* Degenerate inputs of the learning computations
\* ------------------------------------------------------------------------
DegenerateContents == {<<>>, <<"a">>, <<"a", "b">>}

DegenerateSave ==
    \/ /\ Len(memories) < MaxDegenerate
       /\ \E c \in DegenerateContents : save_memory("fact", c, None, <<>>, "low")
    \/ /\ Len(events) < MaxDegenerate
       /\ record_event("app_opened", "Chrome")
DegenerateSearch ==
    /\ \E q \in {<<"a">>, <<"a", "b">>} :
        \E similarity \in CosineOutcomes(q, DegenerateContents) :
           ret' = [query |-> q] @@ semantic_search(q, None, 20, 30, similarity)
    /\ UNCHANGED <<now, memories, suggestions, preferences, history, events,
                        patterns, db, policies, stores, bg>>

NextDegenerate ==
    \/ DegenerateSave
    \/ \E id \in 1..MaxDegenerate : delete_memory(id)
    \/ DegenerateSearch
    \/ analyze_recent_events(7)
    \/ Tick({Days(8)})

SpecDegenerate == Init /\ [][NextDegenerate]_vars

\* the non-archived records semantic_search reads
ActiveMemories == {i \in DOMAIN memories : ~memories[i].archived}

\* C15: semantic_search over no active memory, over active memories whose
\* contents are all empty, or over texts that give the vectorizer no term,
\* returns success with an empty list; analyze_recent_events with no event in
\* its window returns success with empty patterns and habits.
C15_DegenerateIsEmptySuccess ==
    /\ (/\ ret.op = "semantic_search"
        /\ \/ ActiveMemories = {}
           \/ \A i \in ActiveMemories : memories[i].content = <<>>
           \/ Terms(ret.query) \cup
              UNION {Terms(memories[i].content) : i \in ActiveMemories} = {})
           => ret.success = TRUE /\ ret.memories = <<>>
    /\ (/\ ret.op = "analyze_recent_events"
        /\ \A i \in DOMAIN events : events[i].timestamp < now - Days(ret.days))
           => ret.success = TRUE /\ ret.patterns = <<>> /\ ret.habits = <<>>

\* C15 witness: semantic_search was called with a query of no term over an
\* active memory whose non-empty content has no term either, and returned
\* the empty success.
C15_Witness ==
    /\ ret.op = "semantic_search"
    /\ Terms(ret.query) = {}
    /\ ActiveMemories # {}
    /\ \A i \in ActiveMemories : memories[i].content = <<"a">>
    /\ ret.success = TRUE /\ ret.memories = <<>>

\* ------------------------------------------------------------------------
\* Unconfigured: the managers constructed with db=None
\* ------------------------------------------------------------------------
InitUnconfigured ==
    /\ now = 0
    /\ memories = <<>>
    /\ suggestions = <<>>
    /\ preferences = <<>>
    /\ history = <<>>
    /\ events = <<>>
    /\ patterns = <<>>
    /\ ret = [op |-> "init"]
    /\ db = None
    /\ policies = DEFAULT_POLICIES
    /\ stores = [conversations |-> <<>>, archived_conversations |-> <<>>,
                 archived_memories |-> <<>>, event_aggregates |-> <<>>,
                 conversation_context |-> <<>>, inserted |-> 0,
                 sweep |-> None, restore |-> None]
    /\ bg = BackgroundInit

NextUnconfigured ==
    \/ save_memory("fact", <<"a", "b">>, None, <<>>, "low")
    \/ set_preference("voice", "speed", "v1", "manual", 100)
    \/ record_event("app_opened", "Chrome")
    \/ create_suggestion("habit", <<"r">>, 80)
    \/ \E t \in {"short_term", "events", "habits"}, days \in {None, Some(30)},
          action \in {"delete", "keep"} : set_retention_policy(t, days, action)
    \/ \E t \in {None, Some("short_term"), Some("habits")} : cleanup_expired_data(t)

SpecUnconfigured == InitUnconfigured /\ [][NextUnconfigured]_vars

\* C16: with db None every operation returns an explicit failure result and
\* changes no state.
C16_UnconfiguredFails ==
    (db = None /\ ret.op # "init") =>
        /\ \/ "success" \in DOMAIN ret /\ ret.success = FALSE
           \/ "status" \in DOMAIN ret /\ ret.status = "error"
        /\ memories = <<>> /\ suggestions = <<>> /\ preferences = <<>>
        /\ history = <<>> /\ events = <<>> /\ patterns = <<>>
        /\ policies = DEFAULT_POLICIES

\* ------------------------------------------------------------------------
\* Conversations: MemoryManager.add_to_conversation
\* ------------------------------------------------------------------------
\* update_one(..., {"$set": ..., "$push": {"messages": msg_entry}}, upsert=True)
PushMessage(contexts, conversation_id, msg_entry) ==
    LET k == FirstOf({i \in DOMAIN contexts :
                         contexts[i].conversation_id = conversation_id})
    IN  IF k = 0
        THEN Append(contexts, [conversation_id |-> conversation_id,
                               updated_at |-> now, messages |-> <<msg_entry>>])
        ELSE [contexts EXCEPT ![k].updated_at = now,
                              ![k].messages = Append(@, msg_entry)]

\* add_to_conversation; outcome tells which persistence call raises: none
\* ("ok"), the upsert of the context ("context_fails") or the insert_one inside
\* save_memory ("memory_fails"). save_memory catches its exception and returns
\* a failure result, which add_to_conversation does not look at.
add_to_conversation(conversation_id, role, message, outcome) ==
    IF db = None
    THEN /\ ret' = NotConfigured("add_to_conversation")
         /\ UNCHANGED <<now, memories, suggestions, preferences, history, events,
                        patterns, db, policies, stores, bg>>
    ELSE IF outcome = "context_fails"
    THEN /\ ret' = [op |-> "add_to_conversation", success |-> FALSE,
                    error |-> "update_one"]
         /\ UNCHANGED <<now, memories, suggestions, preferences, history, events,
                        patterns, db, policies, stores, bg>>
    ELSE /\ stores' = [stores EXCEPT !.conversation_context =
                          PushMessage(@, conversation_id,
                                      [timestamp |-> now, role |-> role,
                                       message |-> message])]
         /\ memories' = IF outcome = "memory_fails" THEN memories
                        ELSE Append(memories,
                                 NewMemory(Len(memories) + 1, "conversation", message,
                                           Some(conversation_id),
                                           <<"conversation", role>>, "medium"))
         /\ ret' = [op |-> "add_to_conversation", success |-> TRUE]
         /\ UNCHANGED <<now, suggestions, preferences, history, events, patterns,
                        db, policies, bg>>

\* Number of messages held by the conversation contexts.
RECURSIVE MessageCount(_)
MessageCount(contexts) ==
    IF contexts = <<>> THEN 0
    ELSE Len(Head(contexts).messages) + MessageCount(Tail(contexts))

NextConversation ==
    \/ /\ MessageCount(stores.conversation_context) < MaxMessages
       /\ Len(memories) < MaxMessages
       /\ \E role \in {"user", "assistant"},
             outcome \in {"ok", "context_fails", "memory_fails"} :
              add_to_conversation("c1", role, <<"h", "i">>, outcome)
    \/ /\ Len(memories) < MaxMessages
       /\ save_memory("conversation", <<"h", "i">>, Some("c1"), <<>>, "medium")
    \/ analyze_behavior_for_preferences(14)

SpecConversation == Init /\ [][NextConversation]_vars

\* C24: with at least 5 conversation memories in the window, the analysis
\* yields an interaction/response_style candidate (here 'brief' with
\* confidence 0.75, the contents being shorter than 100 characters) and
\* commits it as an inferred preference.
C24_ResponseStyleLearned ==
    (/\ ret.op = "analyze_behavior_for_preferences"
     /\ ret.success
     /\ Cardinality({i \in DOMAIN memories :
                        /\ memories[i].type = "conversation"
                        /\ memories[i].timestamp >= now - Days(14)}) >= 5) =>
        /\ \E i \in DOMAIN ret.patterns :
               /\ ret.patterns[i].category = "interaction"
               /\ ret.patterns[i].key = "response_style"
               /\ ret.patterns[i].value = "brief"
               /\ ret.patterns[i].confidence = 75
        /\ \E i \in DOMAIN preferences :
               /\ preferences[i].category = "interaction"
               /\ preferences[i].key = "response_style"
               /\ preferences[i].value = "brief"
               /\ preferences[i].source = "inferred"

\* C25: add_to_conversation returns success only if the message was appended
\* to the conversation's context and the conversation memory was saved.
C25_SuccessMeansBoth ==
    [][\A role \in {"user", "assistant"},
          outcome \in {"ok", "context_fails", "memory_fails"} :
          (add_to_conversation("c1", role, <<"h", "i">>, outcome) /\ ret'.success) =>
              /\ MessageCount(stores'.conversation_context)
                     = MessageCount(stores.conversation_context) + 1
              /\ Len(memories') = Len(memories) + 1
              /\ memories'[Len(memories')].type = "conversation"
              /\ memories'[Len(memories')].content = <<"h", "i">>]_vars

\* ------------------------------------------------------------------------
\* Archive: _archive_expired and restore_from_archive on "conversations"
\* ------------------------------------------------------------------------
\* A document put into "conversations" by the writer of that collection, with
\* a fresh _id and a date timestamp.
ImportConversation ==
    /\ db # None
    /\ stores.inserted < MaxArchived
    /\ stores' = [stores EXCEPT
           !.inserted = @ + 1,
           !.conversations = Append(@, [_id |-> stores.inserted + 1,
                                        timestamp |-> now,
                                        timestamp_type |-> "date"])]
    /\ ret' = [op |-> "insert_one"]
    /\ UNCHANGED <<now, memories, suggestions, preferences, history, events,
                   patterns, db, policies, bg>>

\* insert_many(docs), ordered: the documents are inserted in turn up to the
\* first whose _id the collection already holds, which raises
InsertMany(coll, docs) ==
    LET dup == FirstOf({i \in DOMAIN docs :
                           \E k \in DOMAIN coll : coll[k]._id = docs[i]._id})
    IN  [coll   |-> coll \o SubSeq(docs, 1, IF dup = 0 THEN Len(docs) ELSE dup - 1),
         raised |-> dup # 0]

\* cleanup_expired_data("conversations") up to its delete_many: find, then
\* insert_many into the archive collection; fails tells that the persistence
\* call raises before writing
_archive_expired_insert(fails) ==
    LET policy  == policies["conversations"]
        cutoff  == now - Days(policy.retention_days[1])
        expired_records == SelectSeq(stores.conversations,
                               LAMBDA c : ExpiredDated(c, cutoff))
        written == InsertMany(stores.archived_conversations, expired_records)
    IN  /\ db # None
        /\ stores.sweep = None
        /\ Touches("conversations", policy)
        /\ IF expired_records = <<>>
           THEN /\ ret' = [op |-> "cleanup_expired_data",
                           cleanup_results |-> [conversations |->
                               [status |-> "success", records |-> 0]]]
                /\ stores' = stores
           ELSE IF fails
           THEN /\ ret' = [op |-> "cleanup_expired_data",
                           cleanup_results |-> [conversations |-> [status |-> "error"]]]
                /\ stores' = stores
           ELSE IF written.raised
           THEN /\ ret' = [op |-> "cleanup_expired_data",
                           cleanup_results |-> [conversations |-> [status |-> "error"]]]
                /\ stores' = [stores EXCEPT !.archived_conversations = written.coll]
           ELSE /\ ret' = ret
                /\ stores' = [stores EXCEPT
                       !.archived_conversations = written.coll,
                       !.sweep = Some([cutoff |-> cutoff,
                                       records |-> Len(expired_records)])]
        /\ UNCHANGED <<now, memories, suggestions, preferences, history, events,
                       patterns, db, policies, bg>>

\* the delete_many(query) that ends _archive_expired: the query is evaluated
\* again, on the collection as it is now
_archive_expired_delete(fails) ==
    /\ stores.sweep # None
    /\ IF fails
       THEN /\ ret' = [op |-> "cleanup_expired_data",
                       cleanup_results |-> [conversations |-> [status |-> "error"]]]
            /\ stores' = [stores EXCEPT !.sweep = None]
       ELSE /\ ret' = [op |-> "cleanup_expired_data",
                       cleanup_results |-> [conversations |->
                           [status |-> "success",
                            records |-> stores.sweep[1].records]]]
            /\ stores' = [stores EXCEPT
                   !.sweep = None,
                   !.conversations =
                       SelectSeq(@, LAMBDA c : ~ExpiredDated(c, stores.sweep[1].cutoff))]
    /\ UNCHANGED <<now, memories, suggestions, preferences, history, events,
                   patterns, db, policies, bg>>

\* restore_from_archive("conversations", "archived_conversations") up to its
\* delete_many: find({}), then insert_many into the target collection
restore_from_archive_insert(fails) ==
    LET archived_records == stores.archived_conversations
        written == InsertMany(stores.conversations, archived_records)
    IN  /\ db # None
        /\ stores.restore = None
        /\ IF archived_records = <<>>
           THEN /\ ret' = [op |-> "restore_from_archive", status |-> "success"]
                /\ stores' = stores
           ELSE IF fails
           THEN /\ ret' = [op |-> "restore_from_archive", status |-> "error"]
                /\ stores' = stores
           ELSE IF written.raised
           THEN /\ ret' = [op |-> "restore_from_archive", status |-> "error"]
                /\ stores' = [stores EXCEPT !.conversations = written.coll]
           ELSE /\ ret' = ret
                /\ stores' = [stores EXCEPT
                       !.conversations = written.coll,
                       !.restore = Some(Len(archived_records))]
        /\ UNCHANGED <<now, memories, suggestions, preferences, history, events,
                       patterns, db, policies, bg>>

\* the delete_many({}) that ends restore_from_archive
restore_from_archive_delete(fails) ==
    /\ stores.restore # None
    /\ IF fails
       THEN /\ ret' = [op |-> "restore_from_archive", status |-> "error"]
            /\ stores' = [stores EXCEPT !.restore = None]
       ELSE /\ ret' = [op |-> "restore_from_archive", status |-> "success",
                       records_restored |-> stores.restore[1]]
            /\ stores' = [stores EXCEPT !.restore = None,
                                        !.archived_conversations = <<>>]
    /\ UNCHANGED <<now, memories, suggestions, preferences, history, events,
                   patterns, db, policies, bg>>

NextArchive ==
    \/ ImportConversation
    \/ \E fails \in BOOLEAN : _archive_expired_insert(fails)
    \/ \E fails \in BOOLEAN : _archive_expired_delete(fails)
    \/ \E fails \in BOOLEAN : restore_from_archive_insert(fails)
    \/ \E fails \in BOOLEAN : restore_from_archive_delete(fails)
    \/ Tick({Days(91)})

SpecArchive == Init /\ [][NextArchive]_vars

\* C30: whenever no sweep and no restore is in progress, every document ever
\* put into "conversations" is in exactly one of "conversations" and
\* "archived_conversations".
C30_ExactlyOnePlace ==
    (stores.sweep = None /\ stores.restore = None) =>
        \A id \in 1..stores.inserted :
            Cardinality({i \in DOMAIN stores.conversations :
                            stores.conversations[i]._id = id})
            + Cardinality({i \in DOMAIN stores.archived_conversations :
                              stores.archived_conversations[i]._id = id}) = 1

\* ------------------------------------------------------------------------
\* BackgroundModeManager: start, stop, the monitor thread, auto-restart
\* ------------------------------------------------------------------------
Others == <<now, memories, suggestions, preferences, history, events, patterns,
            db, policies, stores>>

\* Number of monitor threads that have not left _monitor_loop.
LiveMonitors(b) == Cardinality({i \in DOMAIN b.threads : b.threads[i] = "alive"})

\* self._monitor_thread and self._monitor_thread.is_alive()
MonitorAlive(b) == b.threads # <<>> /\ b.threads[Len(b.threads)] = "alive"

start_background_mode_unguarded ==
    /\ bg.caller = "idle"
    /\ Len(bg.threads) < MaxStarts
    /\ bg' = [bg EXCEPT !._is_running = TRUE, !._crash_count = 0,
                        !._stop_event = FALSE,
                        !.threads = Append(@, "alive")]
    /\ ret' = [op |-> "start_background_mode", success |-> TRUE,
               status |-> "started"]
    /\ UNCHANGED Others

start_background_mode ==
    /\ bg.caller = "idle"
    /\ IF bg._is_running
       THEN /\ ret' = [op |-> "start_background_mode", success |-> FALSE,
                       status |-> "already_running"]
            /\ bg' = bg
       ELSE /\ Len(bg.threads) < MaxStarts
            /\ bg' = [bg EXCEPT !._is_running = TRUE, !._crash_count = 0,
                                !._stop_event = FALSE,
                                !.threads = Append(@, "alive")]
            /\ ret' = [op |-> "start_background_mode", success |-> TRUE,
                       status |-> "started"]
    /\ UNCHANGED Others

\* stop_background_mode up to the join: the event is set, and the caller waits
\* for the monitor thread when it is alive; otherwise the call completes.
stop_background_mode ==
    /\ bg.caller = "idle"
    /\ IF ~bg._is_running
       THEN /\ ret' = [op |-> "stop_background_mode", success |-> FALSE,
                       status |-> "not_running"]
            /\ bg' = bg
       ELSE IF MonitorAlive(bg)
       THEN /\ bg' = [bg EXCEPT !._stop_event = TRUE, !.caller = "joining"]
            /\ ret' = ret
       ELSE /\ bg' = [bg EXCEPT !._stop_event = TRUE, !._is_running = FALSE]
            /\ ret' = [op |-> "stop_background_mode", success |-> TRUE,
                       status |-> "stopped"]
    /\ UNCHANGED Others

\* The join returns once the monitor thread has left its loop: the loop tests
\* the event on every iteration and its wait ends as soon as the event is set.
stop_join ==
    /\ bg.caller = "joining"
    /\ ~MonitorAlive(bg)
    /\ bg' = [bg EXCEPT !._is_running = FALSE, !.caller = "idle"]
    /\ ret' = [op |-> "stop_background_mode", success |-> TRUE,
               status |-> "stopped"]
    /\ UNCHANGED Others

\* stop_background_mode called by _handle_crash, that is on the monitor thread:
\* joining the current thread raises RuntimeError, which the except clause
\* turns into a failure result before _is_running is cleared.
StopFromMonitor(b) ==
    IF ~b._is_running THEN b
    ELSE IF MonitorAlive(b) THEN [b EXCEPT !._stop_event = TRUE]
    ELSE [b EXCEPT !._stop_event = TRUE, !._is_running = FALSE]

CrashLimit == 3

_handle_crash(b) ==
    LET counted == [b EXCEPT !._crash_count = @ + 1]
    IN  IF counted._crash_count >= CrashLimit
        THEN StopFromMonitor([counted EXCEPT !.auto_restart_on_crash = FALSE])
        ELSE counted

\* One iteration of _monitor_loop of thread i that raises.
monitor_error(i) ==
    /\ bg.threads[i] = "alive"
    /\ ~bg._stop_event
    /\ bg.auto_restart_on_crash
    /\ bg' = _handle_crash(bg)
    /\ UNCHANGED <<ret, now, memories, suggestions, preferences, history, events,
                   patterns, db, policies, stores>>

\* The loop condition of thread i finds the event set: the thread ends.
monitor_exit(i) ==
    /\ bg.threads[i] = "alive"
    /\ bg._stop_event
    /\ bg' = [bg EXCEPT !.threads[i] = "done"]
    /\ UNCHANGED <<ret, now, memories, suggestions, preferences, history, events,
                   patterns, db, policies, stores>>

\* ConfigLoader has no method set: the flag is assigned, then the call raises
\* AttributeError and the except clause returns a failure result.
enable_auto_restart ==
    /\ bg.caller = "idle"
    /\ bg' = [bg EXCEPT !.auto_restart_on_crash = TRUE]
    /\ ret' = [op |-> "enable_auto_restart", success |-> FALSE]
    /\ UNCHANGED Others

disable_auto_restart ==
    /\ bg.caller = "idle"
    /\ bg' = [bg EXCEPT !.auto_restart_on_crash = FALSE]
    /\ ret' = [op |-> "disable_auto_restart", success |-> FALSE]
    /\ UNCHANGED Others

NextBackground ==
    \/ start_background_mode
    \/ stop_background_mode
    \/ stop_join
    \/ \E i \in DOMAIN bg.threads : monitor_error(i)
    \/ \E i \in DOMAIN bg.threads : monitor_exit(i)
    \/ enable_auto_restart
    \/ disable_auto_restart

SpecBackground == Init /\ [][NextBackground]_vars

C23_ToggleSucceeds ==
    /\ ret.op = "enable_auto_restart" =>
            ret.success /\ bg.auto_restart_on_crash
    /\ ret.op = "disable_auto_restart" =>
            ret.success /\ ~bg.auto_restart_on_crash

\* C29: once the monitor loop has counted three errors with auto-restart
\* enabled and has ended, the manager is stopped: auto-restart is disabled,
\* is_running() is false and no monitor thread is alive, so that a later
\* start_background_mode succeeds.
C29_CrashLeavesStopped ==
    [][LET crashed == /\ bg._crash_count >= CrashLimit
                      /\ LiveMonitors(bg) = 0
                      /\ bg.caller = "idle"
                      /\ ret.op = "start_background_mode" /\ ret.success
       IN  /\ crashed => ~bg.auto_restart_on_crash /\ ~bg._is_running
           /\ (crashed /\ start_background_mode) => ret'.success]_vars

====
